---- MODULE Spec2Model ----
(***************************************************************************)
(* A model of the packet analyzer core of macsec_packet_analyzer:          *)
(*   - analysis/flow.rs      FlowTracker (the concurrent, DashMap variant) *)
(*   - protocol/registry.rs  ProtocolRegistry and its three parsers        *)
(*   - types.rs              FlowId and its textual form                   *)
(*   - bin/live_analyzer.rs  run_analyzer, the capture/detect/track loop   *)
(*                                                                         *)
(* Unsigned machine integers wider than 31 bits (u32 sequence numbers,     *)
(* u64 identifiers and totals) are kept at their full width as big-endian  *)
(* byte vectors: a u32 is a 4-tuple of bytes, a u64 an 8-tuple.  All       *)
(* arithmetic on them wraps exactly as the Rust wrapping_* methods do.     *)
(* Option<T> is a sequence of length 0 (None) or 1 (Some).                 *)
(***************************************************************************)
EXTENDS Integers, Sequences, FiniteSets, TLC

VARIABLES
    flows,                \* FlowTracker.flows : FlowId -> FlowState
    reorder_window_size,  \* FlowTracker.reorder_window_size
    calls,                \* history: the process_packet calls made so far
    flow_cache,           \* ProtocolRegistry.flow_cache : FlowId -> parser index
    cache_hits,           \* ProtocolRegistry.cache_hits
    cache_misses,         \* ProtocolRegistry.cache_misses
    ethertype_fast_path,  \* ProtocolRegistry.ethertype_fast_path
    unknown_protocol,     \* ProtocolRegistry.unknown_protocol
    reg_calls,            \* history: the registry calls made so far
    fid,                  \* a FlowId value
    text,                 \* Option: fid.to_string()
    parsed,               \* Option: FlowId::new(text)
    pc,                   \* run_analyzer: "loop", "final" (after a break), "returned"
    packet_count,         \* run_analyzer: packet_count
    gap_count,            \* run_analyzer: gap_count
    run_result,           \* Option: the Result run_analyzer returned
    db,                   \* the database behind the PersistenceManager
    workers,              \* snapshots handed to spawn_blocking, not yet written
    final_persists,       \* persist_flows calls made by run_analyzer
    reports,              \* print_analysis_report calls made by run_analyzer
    loop_log,             \* history: the iterations of the run_analyzer loop
    capture,              \* Option: the ReplayCapture that ReplayCapture::open built
    open_calls,           \* history: the ReplayCapture::open calls made so far
    replay_calls,         \* history: the next_packet calls on the replay source
    clock,                \* the wall clock, in nanoseconds since the replay began
    cancelled,            \* history: the next_packet calls dropped while they slept
    persist_calls,        \* history: the calls made on the store
    warnings,             \* the "Async persistence failed" lines written to stderr
    sigint_pending,       \* SIGINT was delivered and sigint.recv() has not returned it
    boundaries,           \* history: FlowId -> gaps_detected at each Ok(None) of a replay
    guards,               \* DashMap: FlowId -> the thread holding the entry's guard (0: get_stats)
    tasks,                \* thread -> Option: the packet of the process_packet call it is inside
    reader,               \* Option: the entry get_stats is visiting and the counters it copied
    snapshots,            \* history: the FlowStats get_stats built
    commits               \* history: FlowId -> the FlowStats after each completed process_packet

tracker_vars == <<flows, reorder_window_size, calls>>
registry_vars == <<flow_cache, cache_hits, cache_misses, ethertype_fast_path,
                   unknown_protocol, reg_calls>>
flowid_vars == <<fid, text, parsed>>
loop_vars == <<pc, packet_count, gap_count, run_result, db, workers, final_persists,
               reports, loop_log, persist_calls, warnings, sigint_pending,
               boundaries>>
signal_vars == <<sigint_pending>>
concurrent_vars == <<guards, tasks, reader, snapshots, commits>>
replay_vars == <<capture, open_calls, replay_calls, clock, cancelled>>
vars == <<flows, reorder_window_size, calls, flow_cache, cache_hits, cache_misses,
          ethertype_fast_path, unknown_protocol, reg_calls, fid, text, parsed,
          pc, packet_count, gap_count, run_result, db, workers, final_persists,
          reports, loop_log, capture, open_calls, replay_calls, clock, cancelled,
          persist_calls,
          warnings, sigint_pending, boundaries, guards, tasks, reader, snapshots, commits>>

----------------------------------------------------------------------------
(* Bounds of the model *)

\* process_packet calls per behaviour
MaxPackets == 4
\* the small sequence numbers fed are 0..MaxSeq (u32::MAX is always fed too)
MaxSeq == 3

----------------------------------------------------------------------------
(* Option<T> *)

None == <<>>
Some(x) == <<x>>
is_some(o) == o # <<>>
is_none(o) == o = <<>>
unwrap(o) == o[1]

(* Maps (HashMap, BTreeMap, DashMap) are functions on their key set *)
EmptyMap == <<>>
MapInsert(m, k, v) == [x \in (DOMAIN m) \cup {k} |-> IF x = k THEN v ELSE m[x]]
MapRemove(m, k) == [x \in (DOMAIN m) \ {k} |-> m[x]]

----------------------------------------------------------------------------
(* Fixed-width unsigned integers as big-endian byte vectors *)

Bytes == 0..255

\* carry into byte i from the less significant bytes of a + b
RECURSIVE CarryIn(_, _, _)
CarryIn(a, b, i) ==
    IF i = Len(a) THEN 0
    ELSE (a[i + 1] + b[i + 1] + CarryIn(a, b, i + 1)) \div 256

\* borrow out of byte i by the less significant bytes of a - b
RECURSIVE BorrowIn(_, _, _)
BorrowIn(a, b, i) ==
    IF i = Len(a) THEN 0
    ELSE IF a[i + 1] - b[i + 1] - BorrowIn(a, b, i + 1) < 0 THEN 1 ELSE 0

\* u32::wrapping_add / u64::wrapping_add: (a + b) mod 2^(8*Len(a))
wrapping_add(a, b) ==
    [i \in 1..Len(a) |-> (a[i] + b[i] + CarryIn(a, b, i)) % 256]

\* u32::wrapping_sub: (a - b) mod 2^(8*Len(a))
wrapping_sub(a, b) ==
    [i \in 1..Len(a) |-> (256 + a[i] - b[i] - BorrowIn(a, b, i)) % 256]

\* a < b on unsigned integers of the same width
Lt(a, b) ==
    \E i \in 1..Len(a) : a[i] < b[i] /\ \A j \in 1..(i - 1) : a[j] = b[j]
Gt(a, b) == Lt(b, a)

\* the u32 / u64 whose value is the small natural n (n < 2^31)
U32(n) == <<(n \div 16777216) % 256, (n \div 65536) % 256, (n \div 256) % 256, n % 256>>
U64(n) == <<0, 0, 0, 0>> \o U32(n)
U32_MAX == <<255, 255, 255, 255>>
\* `x as u64` for a u32 x
AsU64(x) == <<0, 0, 0, 0>> \o x

----------------------------------------------------------------------------
(* types.rs: FlowId, AnalyzedPacket, SequenceGap *)

\* FlowId::MACsec { sci }: sci is a u64
MACsec(sci) == [kind |-> "MACsec", sci |-> sci]
\* FlowId::IPsec { spi, dst_ip }: spi is a u32, dst_ip the four bytes of an IPv4 address
IPsec(spi, dst_ip) == [kind |-> "IPsec", spi |-> spi, dst_ip |-> dst_ip]
\* FlowId::GenericL3 { src_ip, dst_ip, src_port, dst_port, protocol }
GenericL3(src_ip, dst_ip, src_port, dst_port, protocol) ==
    [kind |-> "GenericL3", src_ip |-> src_ip, dst_ip |-> dst_ip,
     src_port |-> src_port, dst_port |-> dst_port, protocol |-> protocol]

AnalyzedPacket(sequence_number, flow_id, timestamp, payload_length) ==
    [sequence_number |-> sequence_number, flow_id |-> flow_id,
     timestamp |-> timestamp, payload_length |-> payload_length]

SequenceGap(flow_id, expected, received, gap_size, timestamp) ==
    [flow_id |-> flow_id, expected |-> expected, received |-> received,
     gap_size |-> gap_size, timestamp |-> timestamp]

----------------------------------------------------------------------------
(* analysis/flow.rs: FlowState and FlowTracker (feature "async") *)

\* FlowState::new
FlowStateNew ==
    [highest_sequence |-> None,
     reorder_buffer |-> EmptyMap,
     expected_sequence |-> None,
     packets_received |-> 0,
     gaps |-> <<>>,
     first_sequence |-> None,
     last_sequence |-> None,
     min_gap |-> None,
     max_gap |-> None,
     total_bytes |-> 0,
     first_timestamp |-> None,
     last_timestamp |-> None,
     previous_timestamp |-> None,
     min_inter_arrival_us |-> None,
     max_inter_arrival_us |-> None,
     total_inter_arrival_us |-> 0,
     inter_arrival_count |-> 0,
     protocol_distribution |-> EmptyMap]

\* FlowTracker::new: with_window_size(32)
DefaultWindowSize == 32

\* Duration::as_micros of a duration in nanoseconds: whole microseconds
as_micros(duration) == duration \div 1000

\* process_packet, "Track inter-arrival times": only when the packet's timestamp
\* is not before last_timestamp (duration_since is Ok).  Timestamps are in
\* nanoseconds; the difference is taken first and then cut to microseconds.
TrackInterArrival(state, packet) ==
    IF is_some(state.last_timestamp) /\ packet.timestamp >= unwrap(state.last_timestamp)
    THEN LET duration_us == as_micros(packet.timestamp - unwrap(state.last_timestamp))
         IN  [state EXCEPT
                !.min_inter_arrival_us =
                    IF is_none(@) \/ duration_us < unwrap(@) THEN Some(duration_us) ELSE @,
                !.max_inter_arrival_us =
                    IF is_none(@) \/ duration_us > unwrap(@) THEN Some(duration_us) ELSE @,
                !.total_inter_arrival_us = @ + duration_us,
                !.inter_arrival_count = @ + 1]
    ELSE state

\* a variant that keeps the latest timestamp seen
TrackTimestamps_Latest(state, packet) ==
    [state EXCEPT
        !.first_timestamp = IF is_none(@) THEN Some(packet.timestamp) ELSE @,
        !.last_timestamp = IF is_some(@) /\ unwrap(@) > packet.timestamp
                           THEN @ ELSE Some(packet.timestamp)]

\* process_packet, "Track timestamps"
TrackTimestamps(state, packet) ==
    [state EXCEPT
        !.first_timestamp = IF is_none(@) THEN Some(packet.timestamp) ELSE @,
        !.last_timestamp = Some(packet.timestamp)]

\* process_packet, "Track protocol distribution for GenericL3 flows"
TrackProtocolDistribution(state, flow_id) ==
    IF flow_id.kind = "GenericL3"
    THEN LET old == IF flow_id.protocol \in DOMAIN state.protocol_distribution
                    THEN state.protocol_distribution[flow_id.protocol] ELSE 0
         IN  [state EXCEPT !.protocol_distribution =
                                MapInsert(@, flow_id.protocol, old + 1)]
    ELSE state

\* a variant of the statistics that does not count a packet stamped earlier
\* than the flow's last one
UpdateStatistics_SkipLate(state, packet) ==
    LET counted == IF is_some(state.last_timestamp)
                      /\ packet.timestamp < unwrap(state.last_timestamp)
                   THEN state
                   ELSE [state EXCEPT !.packets_received = @ + 1,
                                      !.total_bytes = @ + packet.payload_length]
    IN  TrackProtocolDistribution(
            TrackTimestamps(TrackInterArrival(counted, packet), packet),
            packet.flow_id)

\* process_packet, the statistics applied to every packet before any sequence logic
UpdateStatistics(state, packet) ==
    LET counted == [state EXCEPT !.packets_received = @ + 1,
                                 !.total_bytes = @ + packet.payload_length]
    IN  TrackProtocolDistribution(
            TrackTimestamps(TrackInterArrival(counted, packet), packet),
            packet.flow_id)

\* a variant that sets first_sequence and highest_sequence only
RecordFirstSequence_Partial(state, packet) ==
    [state EXCEPT
        !.first_sequence = Some(packet.sequence_number),
        !.highest_sequence = Some(packet.sequence_number),
        !.last_sequence = Some(packet.sequence_number)]

\* process_packet, "Record first sequence"
RecordFirstSequence(state, packet) ==
    [state EXCEPT
        !.first_sequence = Some(packet.sequence_number),
        !.expected_sequence = Some(wrapping_add(packet.sequence_number, U32(1))),
        !.highest_sequence = Some(packet.sequence_number),
        !.last_sequence = Some(packet.sequence_number)]

\* a variant of AdvanceInOrder: the expected sequence is not advanced
AdvanceInOrder_Stuck(state, current_seq) ==
    [state EXCEPT !.highest_sequence = Some(current_seq)]

\* process_packet, "Check if next expected": the packet is in order
AdvanceInOrder(state, current_seq) ==
    [state EXCEPT
        !.expected_sequence = Some(wrapping_add(unwrap(@), U32(1))),
        !.highest_sequence = Some(current_seq)]

\* a variant that counts the received packet among the missing ones
GapSize_Inclusive(current_seq, expected) ==
    wrapping_add(wrapping_sub(current_seq, expected), U32(1))

\* process_packet, the gap size of a packet ahead of the highest sequence seen
GapSize(current_seq, expected) ==
    IF Gt(current_seq, expected)
    THEN wrapping_sub(current_seq, expected)
    ELSE wrapping_add(wrapping_add(wrapping_sub(U32_MAX, expected), current_seq), U32(1))

\* process_packet, the comparisons that classify an out-of-order packet
IsAhead(current_seq, highest) == Gt(current_seq, highest)
IsLate(current_seq, highest) == Lt(current_seq, highest)

\* process_packet, "Out-of-order packet", branch current_seq > highest:
\* the gap it reports, if any
ForwardGap(state, packet, highest, now) ==
    LET current_seq == packet.sequence_number
        expected == IF is_some(state.expected_sequence)
                    THEN unwrap(state.expected_sequence)
                    ELSE wrapping_add(highest, U32(1))
    IN  IF current_seq # expected
        THEN Some(SequenceGap(packet.flow_id, expected, current_seq,
                              GapSize(current_seq, expected), now))
        ELSE None

\* process_packet, branch current_seq > highest: the state it leaves
ForwardJump(state, packet, gap) ==
    LET current_seq == packet.sequence_number
        skipped == IF is_some(gap)
                   THEN [state EXCEPT !.expected_sequence =
                                          Some(wrapping_add(current_seq, U32(1)))]
                   ELSE state
    IN  [skipped EXCEPT
            !.reorder_buffer = MapInsert(@, current_seq, packet),
            !.highest_sequence = Some(current_seq)]

\* a variant in which a late packet that is buffered moves expected_sequence
\* to its successor
LateArrival_Rewind(state, packet) ==
    LET current_seq == packet.sequence_number
    IN  IF current_seq \notin DOMAIN state.reorder_buffer
        THEN [state EXCEPT
                !.expected_sequence = Some(wrapping_add(current_seq, U32(1))),
                !.reorder_buffer = MapInsert(@, current_seq, packet)]
        ELSE state

\* process_packet, branch current_seq < highest: a packet that arrived late
LateArrival(state, packet) ==
    LET current_seq == packet.sequence_number
    IN  IF current_seq \notin DOMAIN state.reorder_buffer
        THEN LET filled ==
                    IF is_some(state.expected_sequence)
                       /\ current_seq = unwrap(state.expected_sequence)
                    THEN [state EXCEPT !.expected_sequence =
                                           Some(wrapping_add(unwrap(@), U32(1)))]
                    ELSE state
             IN  [filled EXCEPT !.reorder_buffer = MapInsert(@, current_seq, packet)]
        ELSE state

\* a variant that sets max_gap on the first gap only
RecordGap_KeepMax(state, gap) ==
    IF is_some(gap)
    THEN LET gap_info == unwrap(gap)
         IN  [state EXCEPT
                !.min_gap = IF is_none(@) \/ Lt(gap_info.gap_size, unwrap(@))
                            THEN Some(gap_info.gap_size) ELSE @,
                !.max_gap = IF is_none(@) THEN Some(gap_info.gap_size) ELSE @,
                !.gaps = Append(@, gap_info)]
    ELSE state

\* process_packet, "Record gap if detected": min_gap, max_gap and the gap list
RecordGap(state, gap) ==
    IF is_some(gap)
    THEN LET gap_info == unwrap(gap)
         IN  [state EXCEPT
                !.min_gap = IF is_none(@) \/ Lt(gap_info.gap_size, unwrap(@))
                            THEN Some(gap_info.gap_size) ELSE @,
                !.max_gap = IF is_none(@) \/ Gt(gap_info.gap_size, unwrap(@))
                            THEN Some(gap_info.gap_size) ELSE @,
                !.gaps = Append(@, gap_info)]
    ELSE state

\* process_packet, the sequence logic of a flow that is not GenericL3:
\* the flow's new state and the value returned
TrackSequence(state, packet, now) ==
    LET current_seq == packet.sequence_number
    IN  IF is_none(state.first_sequence)
        THEN [state |-> RecordFirstSequence(state, packet), ret |-> None]
        ELSE LET highest == unwrap(state.highest_sequence)
                 seen == [state EXCEPT !.last_sequence = Some(current_seq)]
             IN  IF is_some(seen.expected_sequence)
                    /\ current_seq = unwrap(seen.expected_sequence)
                 THEN [state |-> AdvanceInOrder(seen, current_seq), ret |-> None]
                 ELSE IF IsAhead(current_seq, highest)
                 THEN LET gap == ForwardGap(seen, packet, highest, now)
                      IN  [state |-> RecordGap(ForwardJump(seen, packet, gap), gap),
                           ret |-> gap]
                 ELSE IF IsLate(current_seq, highest)
                 THEN [state |-> LateArrival(seen, packet), ret |-> None]
                 ELSE [state |-> seen, ret |-> None]

\* a variant of process_packet: GenericL3 flows are not exempt from sequence logic
process_packet_NoSkip(fl, packet, now) ==
    LET flow_id == packet.flow_id
        entry == IF flow_id \in DOMAIN fl THEN fl[flow_id] ELSE FlowStateNew
        out == TrackSequence(UpdateStatistics(entry, packet), packet, now)
    IN  [flows |-> MapInsert(fl, flow_id, out.state), ret |-> out.ret]

\* a variant that stamps every flow of the tracker with the packet's arrival
process_packet_Shared(fl, packet, now) ==
    LET flow_id == packet.flow_id
        entry == IF flow_id \in DOMAIN fl THEN fl[flow_id] ELSE FlowStateNew
        state == UpdateStatistics(entry, packet)
        out == IF flow_id.kind = "GenericL3"
               THEN [state |-> state, ret |-> None]
               ELSE TrackSequence(state, packet, now)
        stamped == [f \in DOMAIN fl |->
                       [fl[f] EXCEPT !.last_timestamp = Some(packet.timestamp)]]
    IN  [flows |-> MapInsert(stamped, flow_id, out.state), ret |-> out.ret]

\* FlowTracker::process_packet on the flow map fl: the new map and the value
\* returned.  `now` is the wall clock read for a gap's timestamp.
process_packet(fl, packet, now) ==
    LET flow_id == packet.flow_id
        entry == IF flow_id \in DOMAIN fl THEN fl[flow_id] ELSE FlowStateNew
        state == UpdateStatistics(entry, packet)
        out == IF flow_id.kind = "GenericL3"
               THEN [state |-> state, ret |-> None]
               ELSE TrackSequence(state, packet, now)
    IN  [flows |-> MapInsert(fl, flow_id, out.state), ret |-> out.ret]

\* a variant of TotalLost: the total is accumulated in 32 bits
RECURSIVE TotalLost_u32(_)
TotalLost_u32(gaps) ==
    IF gaps = <<>> THEN U64(0)
    ELSE AsU64(wrapping_add(SubSeq(TotalLost_u32(SubSeq(gaps, 1, Len(gaps) - 1)), 5, 8),
                            gaps[Len(gaps)].gap_size))

\* sum of gap_size as u64 over a gap list (get_stats: total_lost)
RECURSIVE TotalLost(_)
TotalLost(gaps) ==
    IF gaps = <<>> THEN U64(0)
    ELSE wrapping_add(TotalLost(SubSeq(gaps, 1, Len(gaps) - 1)),
                      AsU64(gaps[Len(gaps)].gap_size))

\* the FlowStats get_stats builds for one entry of the flow map
FlowStatsOf(flow_id, state) ==
    [flow_id |-> flow_id,
     packets_received |-> state.packets_received,
     gaps_detected |-> Len(state.gaps),
     total_lost_packets |-> TotalLost(state.gaps),
     first_sequence |-> state.first_sequence,
     last_sequence |-> state.last_sequence,
     min_gap |-> state.min_gap,
     max_gap |-> state.max_gap,
     total_bytes |-> state.total_bytes,
     first_timestamp |-> state.first_timestamp,
     last_timestamp |-> state.last_timestamp,
     min_inter_arrival |-> state.min_inter_arrival_us,
     max_inter_arrival |-> state.max_inter_arrival_us,
     avg_inter_arrival |->
        IF state.inter_arrival_count > 0
        THEN Some(state.total_inter_arrival_us \div state.inter_arrival_count)
        ELSE None,
     protocol_distribution |-> state.protocol_distribution]

\* the orders in which a DashMap iteration may visit the flows of fl
IterationOrders(fl) ==
    {order \in [1..Cardinality(DOMAIN fl) -> DOMAIN fl] :
        \A i, j \in DOMAIN order : i # j => order[i] # order[j]}

\* FlowTracker::get_stats, the map being visited in the given order
get_stats(fl, order) == [i \in DOMAIN order |-> FlowStatsOf(order[i], fl[order[i]])]

\* FlowTracker::get_gaps, the map being visited in the given order
RECURSIVE get_gaps(_, _)
get_gaps(fl, order) ==
    IF order = <<>> THEN <<>>
    ELSE get_gaps(fl, SubSeq(order, 1, Len(order) - 1)) \o fl[order[Len(order)]].gaps

----------------------------------------------------------------------------
(* The flow tracker driven by its caller *)

\* the flows fed: a MACsec channel, an ESP association and a TCP 5-tuple
FlowM == MACsec(U64(4660))
FlowI == IPsec(U32(1), <<10, 0, 0, 1>>)
FlowG == GenericL3(<<192, 168, 1, 1>>, <<192, 168, 1, 2>>, 5000, 80, 6)

\* the sequence numbers fed on each flow
SeqsM == {U32(n) : n \in 0..MaxSeq} \cup {U32_MAX}
SeqsI == {U32(1), U32(3)}
SeqsG == {U32(0), U32(1000)}

\* capture timestamp (nanoseconds) of the packet carrying seq, one and a half
\* microseconds per sequence number: a packet that arrives late carries an
\* earlier timestamp than its predecessor
CaptureTime(seq) == 1500 * (seq[4] + 1)

\* SystemTime::now() as process_packet reads it when it records a gap, in
\* nanoseconds: the clock is the machine's, not the capture's, and two of its
\* readings can fall in one millisecond
SystemTimeNow == {1500000, 1999999}

TrackerInputs ==
    {AnalyzedPacket(seq, FlowM, CaptureTime(seq), 100) : seq \in SeqsM}
    \cup {AnalyzedPacket(seq, FlowI, CaptureTime(seq), 200) : seq \in SeqsI}
    \cup {AnalyzedPacket(seq, FlowG, CaptureTime(seq), 150) : seq \in SeqsG}

\* ProtocolRegistry::new: empty cache, zero counters
RegistryInit ==
    /\ flow_cache = EmptyMap
    /\ cache_hits = 0
    /\ cache_misses = 0
    /\ ethertype_fast_path = 0
    /\ unknown_protocol = 0
    /\ reg_calls = <<>>

\* FlowTracker::new
TrackerInit ==
    /\ flows = EmptyMap
    /\ reorder_window_size = DefaultWindowSize
    /\ calls = <<>>

\* one process_packet call; a gap it records is stamped with the machine's
\* clock as the call reads it
ProcessPacket(packet) ==
    /\ Len(calls) < MaxPackets
    /\ \E now \in SystemTimeNow :
       LET r == process_packet(flows, packet, now)
       IN  /\ flows' = r.flows
           /\ calls' = Append(calls,
                  [packet |-> packet,
                   ret |-> r.ret,
                   pre |-> IF packet.flow_id \in DOMAIN flows
                           THEN Some(flows[packet.flow_id]) ELSE None,
                   post |-> r.flows[packet.flow_id]])
    /\ UNCHANGED <<concurrent_vars, reorder_window_size, registry_vars, flowid_vars, replay_vars, loop_vars>>

\* a FlowId not yet formatted
FlowIdInit ==
    /\ fid = MACsec(U64(0))
    /\ text = None
    /\ parsed = None

\* run_analyzer about to enter its loop, over an empty database
LoopInit ==
    /\ pc = "loop"
    /\ sigint_pending = FALSE
    /\ boundaries = <<>>
    /\ packet_count = 0
    /\ gap_count = 0
    /\ run_result = None
    /\ db = [flows |-> EmptyMap, flow_statistics |-> EmptyMap, sequence_gaps |-> <<>>]
    /\ workers = <<>>
    /\ final_persists = 0
    /\ reports = 0
    /\ loop_log = <<>>
    /\ persist_calls = <<>>
    /\ warnings = 0

\* no replay source constructed yet
ReplayInit ==
    /\ capture = None
    /\ open_calls = <<>>
    /\ replay_calls = <<>>
    /\ clock = 0
    /\ cancelled = <<>>


\* no guard is held, no thread is inside the tracker
ConcurrentInit ==
    /\ guards = EmptyMap
    /\ tasks = [w \in {1, 2} |-> None]
    /\ reader = None
    /\ snapshots = <<>>
    /\ commits = [flow_id \in {FlowM, FlowI} |-> <<>>]

Init == TrackerInit /\ RegistryInit /\ FlowIdInit /\ LoopInit /\ ReplayInit /\ ConcurrentInit

Next == \E packet \in TrackerInputs : ProcessPacket(packet)

Spec == Init /\ [][Next]_vars

----------------------------------------------------------------------------
(* Properties of the flow tracker *)

\* the calls made on flow f, in order
CallsOn(f) == SelectSeq(calls, LAMBDA c : c.packet.flow_id = f)

\* d is a forward distance: 1 <= d < 2^31
IsForward(d) == d # U32(0) /\ d[1] < 128

\* call i arrives on a flow whose packets so far ended in order at k, and skips
\* d >= 1 sequence numbers: it carries k + d + 1
EndedInOrderAt(c, k) ==
    /\ is_some(c.pre)
    /\ unwrap(c.pre).highest_sequence = Some(k)
    /\ unwrap(c.pre).last_sequence = Some(k)
    /\ unwrap(c.pre).expected_sequence = Some(wrapping_add(k, U32(1)))

Skips(c, k, d) ==
    /\ c.packet.flow_id.kind # "GenericL3"
    /\ EndedInOrderAt(c, k)
    /\ IsForward(d)
    /\ c.packet.sequence_number = wrapping_add(wrapping_add(k, d), U32(1))

\* the hole a skip from k by d leaves: k+1 .. k+d
InHole(seq, k, d) == Lt(wrapping_sub(seq, wrapping_add(k, U32(1))), d)

\* C1: at most one gap per hole.  A packet that skips from k to k+d+1 on a flow
\* that ended in order at k makes process_packet return one SequenceGap with
\* expected = k+1, received = k+d+1, gap_size = d; every later call for a
\* sequence number inside the hole k+1..k+d returns None and records no gap.
C1_OneGapPerHole ==
    \A i \in DOMAIN calls :
        LET c == calls[i]
            k == unwrap(unwrap(c.pre).highest_sequence)
            d == wrapping_sub(wrapping_sub(c.packet.sequence_number, k), U32(1))
        IN  (is_some(c.pre) /\ is_some(unwrap(c.pre).highest_sequence) /\ Skips(c, k, d))
            => /\ is_some(c.ret)
               /\ unwrap(c.ret).expected = wrapping_add(k, U32(1))
               /\ unwrap(c.ret).received = c.packet.sequence_number
               /\ unwrap(c.ret).gap_size = d
               /\ Len(c.post.gaps) = Len(unwrap(c.pre).gaps) + 1
               /\ \A j \in DOMAIN calls :
                    (j > i /\ calls[j].packet.flow_id = c.packet.flow_id
                     /\ InHole(calls[j].packet.sequence_number, k, d))
                    => /\ calls[j].ret = None
                       /\ calls[j].post.gaps = unwrap(calls[j].pre).gaps

\* C2: wrap-aware forward jump.  On a flow whose highest sequence is h, a packet
\* s with s # h+1 and (s - h) mod 2^32 in the lower half of the range is a
\* forward jump: process_packet returns a gap and records exactly that one gap;
\* after [u32::MAX, 1] the flow has one gap, expected = 0, received = 1,
\* gap_size = 1, and get_stats reports gaps_detected = 1.
C2_WrapAwareForwardJump ==
    /\ \A i \in DOMAIN calls :
        LET c == calls[i]
            h == unwrap(unwrap(c.pre).highest_sequence)
            s == c.packet.sequence_number
        IN  (/\ c.packet.flow_id.kind # "GenericL3"
             /\ is_some(c.pre) /\ is_some(unwrap(c.pre).highest_sequence)
             /\ s # wrapping_add(h, U32(1))
             /\ IsForward(wrapping_sub(s, h)))
            => /\ is_some(c.ret)
               /\ c.post.gaps = Append(unwrap(c.pre).gaps, unwrap(c.ret))
    /\ \A f \in DOMAIN flows :
        (/\ f.kind # "GenericL3"
         /\ Len(CallsOn(f)) = 2
         /\ CallsOn(f)[1].packet.sequence_number = U32_MAX
         /\ CallsOn(f)[2].packet.sequence_number = U32(1))
        => /\ FlowStatsOf(f, flows[f]).gaps_detected = 1
           /\ flows[f].gaps[1].expected = U32(0)
           /\ flows[f].gaps[1].received = U32(1)
           /\ flows[f].gaps[1].gap_size = U32(1)

\* sum of gap_size, as a u64, over the gaps of a list that belong to flow f
RECURSIVE SumGapSizes(_, _)
SumGapSizes(gs, f) ==
    IF gs = <<>> THEN U64(0)
    ELSE LET rest == SumGapSizes(SubSeq(gs, 1, Len(gs) - 1), f)
             g == gs[Len(gs)]
         IN  IF g.flow_id = f THEN wrapping_add(rest, AsU64(g.gap_size)) ELSE rest

GapsOf(gs, f) == SelectSeq(gs, LAMBDA g : g.flow_id = f)

\* C5: gap accounting.  Whatever order the flow map is iterated in, for every
\* flow the total_lost_packets of get_stats is the sum of gap_size over the gaps
\* get_gaps returns for that flow, and gaps_detected is the number of those gaps.
C5_GapAccounting ==
    \A order \in IterationOrders(flows) :
        LET stats == get_stats(flows, order)
            gaps == get_gaps(flows, order)
        IN  \A i \in DOMAIN stats :
                /\ stats[i].total_lost_packets = SumGapSizes(gaps, stats[i].flow_id)
                /\ stats[i].gaps_detected = Len(GapsOf(gaps, stats[i].flow_id))

\* C5 witness: two flows each hold a gap, of different sizes
C5_Witness ==
    /\ FlowM \in DOMAIN flows /\ FlowI \in DOMAIN flows
    /\ Len(flows[FlowI].gaps) = 1
    /\ Len(flows[FlowM].gaps) = 1
    /\ flows[FlowM].gaps[1].gap_size # flows[FlowI].gaps[1].gap_size

\* the calls on f carried 1, 2, ..., N in this order
FedInOrderFromOne(f) ==
    /\ Len(CallsOn(f)) >= 1
    /\ \A i \in DOMAIN CallsOn(f) : CallsOn(f)[i].packet.sequence_number = U32(i)

\* C6: in-order delivery.  Feeding 1, 2, ..., N to one flow that is not
\* GenericL3 makes every call return None and leaves packets_received = N,
\* gaps_detected = 0, total_lost_packets = 0.
C6_InOrderDelivery ==
    \A f \in DOMAIN flows :
        (f.kind # "GenericL3" /\ FedInOrderFromOne(f))
        => /\ \A i \in DOMAIN CallsOn(f) : CallsOn(f)[i].ret = None
           /\ FlowStatsOf(f, flows[f]).packets_received = Len(CallsOn(f))
           /\ FlowStatsOf(f, flows[f]).gaps_detected = 0
           /\ FlowStatsOf(f, flows[f]).total_lost_packets = U64(0)

\* C6 witness: 1, 2, 3 were fed to the MACsec flow
C6_Witness ==
    /\ FlowM \in DOMAIN flows
    /\ FedInOrderFromOne(FlowM)
    /\ Len(CallsOn(FlowM)) = 3

\* the fields of a flow that hold sequence and gap state
SequenceFields(state) ==
    <<state.first_sequence, state.last_sequence, state.expected_sequence,
      state.highest_sequence, state.reorder_buffer, state.gaps,
      state.min_gap, state.max_gap>>

\* C7: Generic L3 suppression.  Every process_packet call on a GenericL3 flow
\* returns None, whatever its sequence number; the flow's gap list stays empty,
\* its sequence fields stay None, and the call adds one to packets_received and
\* to the flow's protocol_distribution entry.
C7_GenericL3Suppression ==
    /\ \A i \in DOMAIN calls :
        LET c == calls[i]
            before == IF is_some(c.pre) THEN unwrap(c.pre) ELSE FlowStateNew
            proto == c.packet.flow_id.protocol
        IN  c.packet.flow_id.kind = "GenericL3"
            => /\ c.ret = None
               /\ SequenceFields(c.post) = SequenceFields(FlowStateNew)
               /\ c.post.packets_received = before.packets_received + 1
               /\ c.post.total_bytes = before.total_bytes + c.packet.payload_length
               /\ c.post.last_timestamp = Some(c.packet.timestamp)
               /\ c.post.protocol_distribution[proto] = c.post.packets_received
    /\ \A f \in DOMAIN flows :
        f.kind = "GenericL3" => FlowStatsOf(f, flows[f]).gaps_detected = 0

\* C7 witness: the TCP flow received sequence 1000 and then sequence 0
C7_Witness ==
    /\ FlowG \in DOMAIN flows
    /\ Len(CallsOn(FlowG)) >= 3
    /\ CallsOn(FlowG)[1].packet.sequence_number = U32(1000)
    /\ CallsOn(FlowG)[2].packet.sequence_number = U32(0)
    /\ CallsOn(FlowG)[3].packet.sequence_number = U32(1000)

----------------------------------------------------------------------------
(* A flow tracker built with a small reorder window *)

\* window size given to FlowTracker::with_window_size in the small-window runs
SmallWindow == 2

WindowInit ==
    /\ flows = EmptyMap
    /\ reorder_window_size \in {SmallWindow, DefaultWindowSize}
    /\ calls = <<>>
    /\ RegistryInit /\ FlowIdInit /\ LoopInit /\ ReplayInit /\ ConcurrentInit

SpecWindow == WindowInit /\ [][Next]_vars

\* the lowest key of a non-empty reorder buffer
LowestKey(buffer) == CHOOSE k \in DOMAIN buffer : \A x \in DOMAIN buffer : ~Lt(x, k)

\* C9: bounded reorder buffer.  Every flow's reorder buffer holds at most
\* reorder_window_size entries, and an insertion into a full buffer evicts the
\* entry with the lowest sequence number.
C9_BoundedReorderBuffer ==
    /\ \A f \in DOMAIN flows :
        Cardinality(DOMAIN flows[f].reorder_buffer) <= reorder_window_size
    /\ \A i \in DOMAIN calls :
        LET c == calls[i]
            before == unwrap(c.pre).reorder_buffer
            inserted == MapInsert(before, c.packet.sequence_number, c.packet)
        IN  (/\ is_some(c.pre)
             /\ Cardinality(DOMAIN before) = reorder_window_size
             /\ c.packet.sequence_number \notin DOMAIN before
             /\ c.packet.sequence_number \in DOMAIN c.post.reorder_buffer)
            => c.post.reorder_buffer = MapRemove(inserted, LowestKey(inserted))

----------------------------------------------------------------------------
(* Raw frames.  A frame is a sequence of bytes; Rust indexes it from 0. *)

\* data[i]
At(data, i) == data[i + 1]
\* &data[from..to]
Slice(data, from, to) == SubSeq(data, from + 1, to)
\* &data[from..]
SliceFrom(data, from) == SubSeq(data, from + 1, Len(data))
\* u16::from_be_bytes
u16_from_be_bytes(hi, lo) == hi * 256 + lo

\* Result<Option<SequenceInfo>, ParseError>
Ok(v) == [ok |-> TRUE, val |-> v, err |-> ""]
Err(e) == [ok |-> FALSE, val |-> None, err |-> e]

SequenceInfo(sequence_number, flow_id, payload_length) ==
    [sequence_number |-> sequence_number, flow_id |-> flow_id,
     payload_length |-> payload_length]

----------------------------------------------------------------------------
(* protocol/macsec.rs *)

macsec_matches(data) ==
    IF Len(data) < 14 THEN FALSE
    ELSE At(data, 12) = 136 /\ At(data, 13) = 229

macsec_parse_sequence(data) ==
    IF ~macsec_matches(data) THEN Ok(None)
    ELSE IF Len(data) < 30 THEN Err("PacketTooShort")
    ELSE LET packet_number == Slice(data, 16, 20)
             sci == Slice(data, 20, 28)
             payload_length == IF Len(data) > 28 + 16 THEN Len(data) - 28 - 16 ELSE 0
         IN  Ok(Some(SequenceInfo(packet_number, MACsec(sci), payload_length)))

----------------------------------------------------------------------------
(* protocol/ipsec.rs *)

IP_PROTOCOL_ESP == 50

\* (data[14] & 0x0f) as usize * 4
Ihl(data) == (At(data, 14) % 16) * 4

ipsec_matches(data) ==
    IF Len(data) < 42 THEN FALSE
    ELSE IF Len(data) < 14 \/ At(data, 12) # 8 \/ At(data, 13) # 0 THEN FALSE
    ELSE IF Len(data) < 24 THEN FALSE
    ELSE At(data, 23) = IP_PROTOCOL_ESP

ipsec_parse_sequence(data) ==
    IF ~ipsec_matches(data) THEN Ok(None)
    ELSE IF Len(data) < 42 THEN Err("PacketTooShort")
    ELSE LET ip_header_end == 14 + Ihl(data) IN
         IF Len(data) < ip_header_end THEN Err("PacketTooShort")
         ELSE LET dst_ip == <<At(data, 30), At(data, 31), At(data, 32), At(data, 33)>>
                  esp_payload == SliceFrom(data, ip_header_end)
              IN  IF Len(esp_payload) < 8 THEN Err("PacketTooShort")
                  ELSE LET spi == Slice(esp_payload, 0, 4)
                           sequence_number == Slice(esp_payload, 4, 8)
                           payload_length == Len(esp_payload) - 8
                       IN  Ok(Some(SequenceInfo(sequence_number, IPsec(spi, dst_ip),
                                                payload_length)))

----------------------------------------------------------------------------
(* protocol/generic_l3.rs *)

IP_PROTOCOL_TCP == 6
IP_PROTOCOL_UDP == 17

generic_l3_matches(data) ==
    IF Len(data) < 42 THEN FALSE
    ELSE IF At(data, 12) # 8 \/ At(data, 13) # 0 THEN FALSE
    ELSE At(data, 23) = IP_PROTOCOL_TCP \/ At(data, 23) = IP_PROTOCOL_UDP

\* the TCP arm of the match on the IP protocol
generic_l3_tcp(transport_payload, flow_id) ==
    IF Len(transport_payload) < 8 THEN Err("PacketTooShort")
    ELSE LET sequence_number == Slice(transport_payload, 4, 8)
             tcp_header_len == IF Len(transport_payload) > 12
                               THEN (At(transport_payload, 12) \div 16) * 4
                               ELSE 20
             payload_length == IF Len(transport_payload) > tcp_header_len
                               THEN Len(transport_payload) - tcp_header_len
                               ELSE 0
         IN  Ok(Some(SequenceInfo(sequence_number, flow_id, payload_length)))

generic_l3_parse_sequence(data) ==
    IF ~generic_l3_matches(data) THEN Ok(None)
    ELSE IF Len(data) < 42 THEN Err("PacketTooShort")
    ELSE LET ip_header_end == 14 + Ihl(data) IN
         IF Len(data) < ip_header_end THEN Err("PacketTooShort")
         ELSE LET protocol == At(data, 23)
                  src_ip == <<At(data, 26), At(data, 27), At(data, 28), At(data, 29)>>
                  dst_ip == <<At(data, 30), At(data, 31), At(data, 32), At(data, 33)>>
                  transport_payload == SliceFrom(data, ip_header_end)
              IN  IF Len(transport_payload) < 4 THEN Err("PacketTooShort")
                  ELSE LET src_port == u16_from_be_bytes(At(transport_payload, 0),
                                                         At(transport_payload, 1))
                           dst_port == u16_from_be_bytes(At(transport_payload, 2),
                                                         At(transport_payload, 3))
                       IN  IF protocol = IP_PROTOCOL_TCP
                           THEN generic_l3_tcp(transport_payload,
                                    GenericL3(src_ip, dst_ip, src_port, dst_port, protocol))
                           ELSE Ok(None)

----------------------------------------------------------------------------
(* protocol/registry.rs *)

\* add_parser: push the entry, then sort by descending priority (stable)
add_parser(ps, name, priority) ==
    LET ahead == Cardinality({i \in DOMAIN ps : ps[i].priority >= priority})
    IN  SubSeq(ps, 1, ahead) \o <<[name |-> name, priority |-> priority]>>
            \o SubSeq(ps, ahead + 1, Len(ps))

\* the parsers vector built by ProtocolRegistry::new
parsers ==
    add_parser(add_parser(add_parser(<<>>, "MACsec", 30), "IPsec-ESP", 20),
               "Generic-L3", 10)

\* self.parsers[idx].parser.parse_sequence(data), idx counted from 0
parse_sequence(idx, data) ==
    CASE parsers[idx + 1].name = "MACsec" -> macsec_parse_sequence(data)
      [] parsers[idx + 1].name = "IPsec-ESP" -> ipsec_parse_sequence(data)
      [] parsers[idx + 1].name = "Generic-L3" -> generic_l3_parse_sequence(data)

\* the ESP and the TCP/UDP arm of extract_provisional_flow_id
provisional_esp(data) ==
    IF Len(data) < 42 THEN None
    ELSE LET ip_header_end == 14 + Ihl(data) IN
         IF Len(data) < ip_header_end + 4 THEN None
         ELSE LET dst_ip == <<At(data, 30), At(data, 31), At(data, 32), At(data, 33)>>
                  esp_payload == SliceFrom(data, ip_header_end)
              IN  Some(IPsec(Slice(esp_payload, 0, 4), dst_ip))

\* a variant of the TCP/UDP arm that reads the two ports in the other order
provisional_transport_Swapped(data, ip_protocol) ==
    IF Len(data) < 42 THEN None
    ELSE LET ip_header_end == 14 + Ihl(data) IN
         IF Len(data) < ip_header_end + 4 THEN None
         ELSE LET src_ip == <<At(data, 26), At(data, 27), At(data, 28), At(data, 29)>>
                  dst_ip == <<At(data, 30), At(data, 31), At(data, 32), At(data, 33)>>
                  transport == SliceFrom(data, ip_header_end)
                  src_port == u16_from_be_bytes(At(transport, 2), At(transport, 3))
                  dst_port == u16_from_be_bytes(At(transport, 0), At(transport, 1))
              IN  Some(GenericL3(src_ip, dst_ip, src_port, dst_port, ip_protocol))

provisional_transport(data, ip_protocol) ==
    IF Len(data) < 42 THEN None
    ELSE LET ip_header_end == 14 + Ihl(data) IN
         IF Len(data) < ip_header_end + 4 THEN None
         ELSE LET src_ip == <<At(data, 26), At(data, 27), At(data, 28), At(data, 29)>>
                  dst_ip == <<At(data, 30), At(data, 31), At(data, 32), At(data, 33)>>
                  transport == SliceFrom(data, ip_header_end)
                  src_port == u16_from_be_bytes(At(transport, 0), At(transport, 1))
                  dst_port == u16_from_be_bytes(At(transport, 2), At(transport, 3))
              IN  Some(GenericL3(src_ip, dst_ip, src_port, dst_port, ip_protocol))

extract_provisional_flow_id(data) ==
    IF Len(data) < 34 THEN None
    ELSE LET ip_protocol == At(data, 23) IN
         CASE ip_protocol = 50 -> provisional_esp(data)
           [] ip_protocol \in {6, 17} -> provisional_transport(data, ip_protocol)
           [] OTHER -> None

cache_flow(cache, flow_id, parser_idx) == MapInsert(cache, flow_id, parser_idx)
lookup_cache(cache, flow_id) ==
    IF flow_id \in DOMAIN cache THEN Some(cache[flow_id]) ELSE None
evict_cache(cache, flow_id) == MapRemove(cache, flow_id)

\* the registry as one value
Registry ==
    [flow_cache |-> flow_cache, cache_hits |-> cache_hits,
     cache_misses |-> cache_misses, ethertype_fast_path |-> ethertype_fast_path,
     unknown_protocol |-> unknown_protocol]

\* the loop over the parsers in Tier 3, from index idx on;
\* an Err leaves the loop at once, a Some names the parser that matched
RECURSIVE TryParsers(_, _)
TryParsers(data, idx) ==
    IF idx >= Len(parsers) THEN [result |-> Ok(None), idx |-> idx]
    ELSE LET r == parse_sequence(idx, data) IN
         IF ~r.ok \/ is_some(r.val) THEN [result |-> r, idx |-> idx]
         ELSE TryParsers(data, idx + 1)

\* a variant of Tier 3 that finds the parser but does not remember it
FullDetection_NoCache(reg, data) ==
    LET missed == [reg EXCEPT !.cache_misses = @ + 1]
        tried == TryParsers(data, 0)
    IN  IF ~tried.result.ok THEN [reg |-> missed, result |-> tried.result]
        ELSE IF is_some(tried.result.val) THEN [reg |-> missed, result |-> tried.result]
        ELSE [reg |-> [missed EXCEPT !.unknown_protocol = @ + 1], result |-> Ok(None)]

\* a variant of Tier 3 that counts an unknown protocol on every run
FullDetection_AlwaysUnknown(reg, data) ==
    LET missed == [reg EXCEPT !.cache_misses = @ + 1, !.unknown_protocol = @ + 1]
        tried == TryParsers(data, 0)
    IN  IF ~tried.result.ok THEN [reg |-> missed, result |-> tried.result]
        ELSE IF is_some(tried.result.val)
        THEN [reg |-> [missed EXCEPT !.flow_cache =
                          cache_flow(@, unwrap(tried.result.val).flow_id, tried.idx)],
              result |-> tried.result]
        ELSE [reg |-> missed, result |-> Ok(None)]

\* TIER 3: full detection
FullDetection(reg, data) ==
    LET missed == [reg EXCEPT !.cache_misses = @ + 1]
        tried == TryParsers(data, 0)
    IN  IF ~tried.result.ok THEN [reg |-> missed, result |-> tried.result]
        ELSE IF is_some(tried.result.val)
        THEN [reg |-> [missed EXCEPT !.flow_cache =
                          cache_flow(@, unwrap(tried.result.val).flow_id, tried.idx)],
              result |-> tried.result]
        ELSE [reg |-> [missed EXCEPT !.unknown_protocol = @ + 1], result |-> Ok(None)]

\* a variant of Tier 2 that drops the cache entry when the cached parser fails
CacheLookup_EvictOnError(reg, data) ==
    LET flow_id == extract_provisional_flow_id(data)
        parser_idx == IF is_some(flow_id)
                      THEN lookup_cache(reg.flow_cache, unwrap(flow_id))
                      ELSE None
    IN  IF is_some(flow_id) /\ is_some(parser_idx)
        THEN LET hit == [reg EXCEPT !.cache_hits = @ + 1]
                 r == parse_sequence(unwrap(parser_idx), data)
             IN  IF ~r.ok
                 THEN [reg |-> [hit EXCEPT !.flow_cache = evict_cache(@, unwrap(flow_id))],
                       result |-> r]
                 ELSE IF is_some(r.val) THEN [reg |-> hit, result |-> r]
                 ELSE FullDetection(
                          [hit EXCEPT !.flow_cache = evict_cache(@, unwrap(flow_id))],
                          data)
        ELSE FullDetection(reg, data)

\* TIER 2: flow cache lookup, falling through to Tier 3
CacheLookup(reg, data) ==
    LET flow_id == extract_provisional_flow_id(data)
        parser_idx == IF is_some(flow_id)
                      THEN lookup_cache(reg.flow_cache, unwrap(flow_id))
                      ELSE None
    IN  IF is_some(flow_id) /\ is_some(parser_idx)
        THEN LET hit == [reg EXCEPT !.cache_hits = @ + 1]
                 r == parse_sequence(unwrap(parser_idx), data)
             IN  IF ~r.ok THEN [reg |-> hit, result |-> r]
                 ELSE IF is_some(r.val) THEN [reg |-> hit, result |-> r]
                 ELSE FullDetection(
                          [hit EXCEPT !.flow_cache = evict_cache(@, unwrap(flow_id))],
                          data)
        ELSE FullDetection(reg, data)

\* a variant whose fast path also counts as a cache miss
detect_and_parse_FastPathMiss(reg, data) ==
    IF Len(data) < 14 THEN [reg |-> reg, result |-> Ok(None)]
    ELSE LET ethertype == u16_from_be_bytes(At(data, 12), At(data, 13)) IN
         IF ethertype = 35045
         THEN [reg |-> [reg EXCEPT !.ethertype_fast_path = @ + 1, !.cache_misses = @ + 1],
               result |-> parse_sequence(0, data)]
         ELSE IF ethertype # 2048
         THEN [reg |-> [reg EXCEPT !.unknown_protocol = @ + 1], result |-> Ok(None)]
         ELSE CacheLookup(reg, data)

detect_and_parse(reg, data) ==
    IF Len(data) < 14 THEN [reg |-> reg, result |-> Ok(None)]
    ELSE LET ethertype == u16_from_be_bytes(At(data, 12), At(data, 13)) IN
         IF ethertype = 35045
         THEN [reg |-> [reg EXCEPT !.ethertype_fast_path = @ + 1],
               result |-> parse_sequence(0, data)]
         ELSE IF ethertype # 2048
         THEN [reg |-> [reg EXCEPT !.unknown_protocol = @ + 1], result |-> Ok(None)]
         ELSE CacheLookup(reg, data)

\* RegistryStats
RegistryStats(reg) ==
    [cache_hits |-> reg.cache_hits, cache_misses |-> reg.cache_misses,
     ethertype_fast_path |-> reg.ethertype_fast_path,
     unknown_protocol |-> reg.unknown_protocol,
     cache_size |-> Cardinality(DOMAIN reg.flow_cache)]

\* a variant that leaves the cache as it is
clear_cache_Keep(reg) == [reg EXCEPT !.flow_cache = @]

\* ProtocolRegistry::clear_cache
clear_cache(reg) == [reg EXCEPT !.flow_cache = EmptyMap]

----------------------------------------------------------------------------
(* Frames fed to the registry *)

\* vec![0u8; len] with the listed bytes written (offsets from 0)
Frame(len, writes) ==
    [i \in 1..len |-> IF (i - 1) \in DOMAIN writes THEN writes[i - 1] ELSE 0]
\* packet[offset] = byte
With(data, offset, byte) == [data EXCEPT ![offset + 1] = byte]

Ipv4Addresses ==
    26 :> 192 @@ 27 :> 168 @@ 28 :> 1 @@ 29 :> 10 @@
    30 :> 10 @@ 31 :> 0 @@ 32 :> 0 @@ 33 :> 1

create_macsec_packet == Frame(30, 12 :> 136 @@ 13 :> 229)

create_ipv4_tcp_packet ==
    Frame(42, 12 :> 8 @@ 13 :> 0 @@ 14 :> 69 @@ 23 :> 6 @@ Ipv4Addresses @@
              34 :> 48 @@ 35 :> 57 @@ 36 :> 0 @@ 37 :> 80)

create_ipv4_udp_packet ==
    Frame(42, 12 :> 8 @@ 13 :> 0 @@ 14 :> 69 @@ 23 :> 17 @@ Ipv4Addresses @@
              34 :> 0 @@ 35 :> 53 @@ 36 :> 0 @@ 37 :> 53)

create_ipv4_esp_packet ==
    Frame(50, 12 :> 8 @@ 13 :> 0 @@ 14 :> 69 @@ 23 :> 50 @@ Ipv4Addresses @@
              37 :> 1 @@ 41 :> 1)

\* the frames of the registry tests and variations of them
Frames ==
    { create_macsec_packet,
      SubSeq(create_macsec_packet, 1, 20),          \* MACsec EtherType, no SecTag
      create_ipv4_tcp_packet,
      With(create_ipv4_tcp_packet, 41, 1),          \* same flow, next TCP sequence number
      With(create_ipv4_tcp_packet, 35, 58),         \* another source port
      With(With(With(With(create_ipv4_tcp_packet, 34, 0), 35, 0), 36, 0), 37, 0),
      With(With(With(With(With(create_ipv4_tcp_packet, 14, 70),
                          34, 0), 35, 0), 36, 0), 37, 0),   \* IHL 6: 4 transport bytes
      create_ipv4_udp_packet,
      create_ipv4_esp_packet,
      With(create_ipv4_esp_packet, 41, 2),          \* same flow, next ESP sequence number
      With(SubSeq(create_ipv4_esp_packet, 1, 42), 14, 70),  \* IHL 6: 4 ESP bytes
      With(create_ipv4_tcp_packet, 23, 1),          \* ICMP
      With(create_ipv4_tcp_packet, 13, 6),          \* ARP EtherType
      SubSeq(create_ipv4_tcp_packet, 1, 10) }       \* shorter than an Ethernet header

\* registry calls per behaviour
MaxRegistryCalls == 3

\* one detect_and_parse call
DetectAndParse(data) ==
    /\ Len(reg_calls) < MaxRegistryCalls
    /\ LET r == detect_and_parse(Registry, data)
       IN  /\ flow_cache' = r.reg.flow_cache
           /\ cache_hits' = r.reg.cache_hits
           /\ cache_misses' = r.reg.cache_misses
           /\ ethertype_fast_path' = r.reg.ethertype_fast_path
           /\ unknown_protocol' = r.reg.unknown_protocol
           /\ reg_calls' = Append(reg_calls,
                  [op |-> "detect_and_parse", data |-> data, result |-> r.result,
                   before |-> Registry, after |-> r.reg])
    /\ UNCHANGED <<concurrent_vars, tracker_vars, flowid_vars, replay_vars, loop_vars>>

\* one clear_cache call
ClearCache ==
    /\ Len(reg_calls) < MaxRegistryCalls
    /\ flow_cache' = clear_cache(Registry).flow_cache
    /\ reg_calls' = Append(reg_calls,
           [op |-> "clear_cache", data |-> <<>>, result |-> Ok(None),
            before |-> Registry, after |-> clear_cache(Registry)])
    /\ UNCHANGED <<cache_hits, cache_misses, ethertype_fast_path, unknown_protocol>>
    /\ UNCHANGED <<concurrent_vars, tracker_vars, flowid_vars, replay_vars, loop_vars>>

NextRegistry ==
    \/ \E data \in Frames : DetectAndParse(data)
    \/ ClearCache

SpecRegistry == Init /\ [][NextRegistry]_vars

----------------------------------------------------------------------------
(* Claims about the registry *)

\* the IPv4 flow a well-formed frame belongs to: the FlowId its parser reports
FlowOfFrame(data) ==
    LET tried == TryParsers(data, 1)
    IN  IF tried.result.ok /\ is_some(tried.result.val)
        THEN Some(unwrap(tried.result.val).flow_id)
        ELSE None

\* the call returned Ok(Some) for an IPv4 flow through Tier 3
ViaTier3(c) ==
    /\ c.op = "detect_and_parse"
    /\ c.result.ok /\ is_some(c.result.val)
    /\ unwrap(c.result.val).flow_id.kind \in {"IPsec", "GenericL3"}
    /\ c.after.cache_misses = c.before.cache_misses + 1

\* C8: cache correctness.  A detect_and_parse call that returns Ok(Some) for
\* an IPv4 flow through Tier 3 (cache_misses +1) leaves the flow in the cache,
\* and the next detect_and_parse call for a packet of the same flow returns
\* Ok(Some) through Tier 2: cache_hits increases by exactly 1 and cache_misses
\* is unchanged.
C8_CacheCorrectness ==
    \A i \in DOMAIN reg_calls :
        ViaTier3(reg_calls[i]) =>
            LET flow_id == unwrap(reg_calls[i].result.val).flow_id
            IN  /\ flow_id \in DOMAIN reg_calls[i].after.flow_cache
                /\ (/\ i + 1 \in DOMAIN reg_calls
                    /\ reg_calls[i + 1].op = "detect_and_parse"
                    /\ FlowOfFrame(reg_calls[i + 1].data) = Some(flow_id))
                   => LET c == reg_calls[i + 1]
                      IN  /\ c.result.ok /\ is_some(c.result.val)
                          /\ unwrap(c.result.val).flow_id = flow_id
                          /\ c.after.cache_hits = c.before.cache_hits + 1
                          /\ c.after.cache_misses = c.before.cache_misses

\* a flow went through Tier 3 and then, on a different frame, through Tier 2
C8_Witness ==
    \E i \in DOMAIN reg_calls :
        /\ i + 1 \in DOMAIN reg_calls
        /\ ViaTier3(reg_calls[i])
        /\ reg_calls[i + 1].op = "detect_and_parse"
        /\ reg_calls[i + 1].data # reg_calls[i].data
        /\ FlowOfFrame(reg_calls[i + 1].data) = Some(unwrap(reg_calls[i].result.val).flow_id)
        /\ reg_calls[i + 1].after.cache_hits = 1

----------------------------------------------------------------------------
(* types.rs: the textual form of a FlowId.  A String is a sequence of       *)
(* one-character strings.                                                   *)

\* string literals of types.rs
MACSEC_TEXT == <<"M", "A", "C", "s", "e", "c">>
IPSEC_TEXT == <<"I", "P", "s", "e", "c">>
TCP_TEXT == <<"T", "C", "P">>
UDP_TEXT == <<"U", "D", "P">>
UNKNOWN_TEXT == <<"U", "n", "k", "n", "o", "w", "n">>
MACSEC_OPEN == <<"M", "A", "C", "s", "e", "c", " ", "{", " ", "s", "c", "i", ":", " ", "0", "x">>
IPSEC_OPEN == <<"I", "P", "s", "e", "c", " ", "{", " ", "s", "p", "i", ":", " ", "0", "x">>

HexDigits == <<"0", "1", "2", "3", "4", "5", "6", "7",
               "8", "9", "a", "b", "c", "d", "e", "f">>
DecDigits == SubSeq(HexDigits, 1, 10)

\* {:02x} of one byte
HexByte(b) == <<HexDigits[(b \div 16) + 1], HexDigits[(b % 16) + 1]>>

\* {:016x} of a u64 and {:08x} of a u32: every byte of the value, two digits each
RECURSIVE LowerHex(_)
LowerHex(bytes) ==
    IF bytes = <<>> THEN <<>>
    ELSE HexByte(bytes[1]) \o LowerHex(SubSeq(bytes, 2, Len(bytes)))

\* {} of an unsigned integer: decimal, no leading zeros
RECURSIVE Decimal(_)
Decimal(n) ==
    IF n < 10 THEN <<DecDigits[n + 1]>>
    ELSE Decimal(n \div 10) \o <<DecDigits[(n % 10) + 1]>>

\* {} of an Ipv4Addr
Ipv4Display(ip) ==
    Decimal(ip[1]) \o <<".">> \o Decimal(ip[2]) \o <<".">> \o Decimal(ip[3])
        \o <<".">> \o Decimal(ip[4])

proto_name(protocol) ==
    CASE protocol = 6 -> TCP_TEXT
      [] protocol = 17 -> UDP_TEXT
      [] OTHER -> UNKNOWN_TEXT

\* impl Display for FlowId
to_string(this) ==
    CASE this.kind = "MACsec" ->
            MACSEC_OPEN \o LowerHex(this.sci) \o <<" ", "}">>
      [] this.kind = "IPsec" ->
            IPSEC_OPEN \o LowerHex(this.spi) \o <<",", " ", "d", "s", "t", ":", " ">>
                \o Ipv4Display(this.dst_ip) \o <<" ", "}">>
      [] this.kind = "GenericL3" ->
            proto_name(this.protocol) \o <<" ", "{", " ">>
                \o Ipv4Display(this.src_ip) \o <<":">> \o Decimal(this.src_port)
                \o <<" ", "-", ">", " ">>
                \o Ipv4Display(this.dst_ip) \o <<":">> \o Decimal(this.dst_port)
                \o <<" ", "}">>

\* str::starts_with and str::ends_with
starts_with(s, prefix) ==
    Len(s) >= Len(prefix) /\ SubSeq(s, 1, Len(prefix)) = prefix
ends_with(s, suffix) ==
    Len(s) >= Len(suffix) /\ SubSeq(s, Len(s) - Len(suffix) + 1, Len(s)) = suffix

\* the positions at which pat occurs in s, and the first of them at or after from
Occurrences(s, pat) ==
    {i \in 1..(Len(s) - Len(pat) + 1) : SubSeq(s, i, i + Len(pat) - 1) = pat}
FirstFrom(s, pat, from) ==
    LET at == {i \in Occurrences(s, pat) : i >= from}
    IN  IF at = {} THEN None ELSE Some(CHOOSE i \in at : \A j \in at : i <= j)

\* s.split(pat).nth(1): the piece between the first and the second occurrence
split_nth1(s, pat) ==
    LET first == FirstFrom(s, pat, 1) IN
    IF is_none(first) THEN None
    ELSE LET start == unwrap(first) + Len(pat)
             second == FirstFrom(s, pat, start)
         IN  Some(SubSeq(s, start,
                         IF is_none(second) THEN Len(s) ELSE unwrap(second) - 1))

\* str::trim_end_matches: strip the suffix as often as it occurs
RECURSIVE trim_end_matches(_, _)
trim_end_matches(s, suffix) ==
    IF ends_with(s, suffix)
    THEN trim_end_matches(SubSeq(s, 1, Len(s) - Len(suffix)), suffix)
    ELSE s

\* char::to_digit(16)
HexValue(c) ==
    CASE \E i \in 1..16 : HexDigits[i] = c -> Some((CHOOSE i \in 1..16 : HexDigits[i] = c) - 1)
      [] c \in {"A", "B", "C", "D", "E", "F"} ->
            Some(CASE c = "A" -> 10 [] c = "B" -> 11 [] c = "C" -> 12
                   [] c = "D" -> 13 [] c = "E" -> 14 [] c = "F" -> 15)
      [] OTHER -> None

RECURSIVE StripLeadingZeros(_)
StripLeadingZeros(s) ==
    IF Len(s) > 1 /\ s[1] = "0" THEN StripLeadingZeros(SubSeq(s, 2, Len(s))) ELSE s

\* u64::from_str_radix(s, 16): Some(value) for Ok, None for Err; an optional
\* "+", then one or more hex digits whose value fits 64 bits
u64_from_str_radix(s) ==
    LET digits == IF Len(s) > 0 /\ s[1] = "+" THEN SubSeq(s, 2, Len(s)) ELSE s IN
    IF digits = <<>> \/ \E i \in DOMAIN digits : is_none(HexValue(digits[i])) THEN None
    ELSE LET significant == StripLeadingZeros(digits) IN
         IF Len(significant) > 16 THEN None
         ELSE LET padded == [i \in 1..(16 - Len(significant)) |-> "0"] \o significant
              IN  Some([i \in 1..8 |-> unwrap(HexValue(padded[2 * i - 1])) * 16
                                       + unwrap(HexValue(padded[2 * i]))])

\* FlowId::new
FlowId_new(s) ==
    IF starts_with(s, MACSEC_TEXT)
    THEN LET hex_str == split_nth1(s, <<"0", "x">>)
             sci == IF is_some(hex_str)
                    THEN u64_from_str_radix(trim_end_matches(unwrap(hex_str), <<" ", "}">>))
                    ELSE None
         IN  IF is_some(sci) THEN MACsec(unwrap(sci)) ELSE MACsec(U64(0))
    ELSE IF starts_with(s, IPSEC_TEXT)
    THEN IPsec(U32(0), <<0, 0, 0, 0>>)
    ELSE IF starts_with(s, TCP_TEXT) \/ starts_with(s, UDP_TEXT)
    THEN GenericL3(<<0, 0, 0, 0>>, <<0, 0, 0, 0>>, 0, 0, 6)
    ELSE MACsec(U64(0))

----------------------------------------------------------------------------
(* Formatting a FlowId and parsing the text back *)

\* the bytes the sampled identifiers are built from
SampleBytes == {0, 1, 18, 171, 255}

\* identifiers the three parsers can produce
SampleFlowIds ==
    {MACsec(<<a, 0, 0, 0, 0, 0, b, c>>) : a \in SampleBytes, b \in {0, 18}, c \in SampleBytes}
    \cup {IPsec(<<a, 0, 0, b>>, ip) : a \in SampleBytes, b \in SampleBytes,
                                     ip \in {<<0, 0, 0, 0>>, <<10, 0, 0, 1>>}}
    \cup {GenericL3(<<192, 168, 1, a>>, <<10, 0, 0, 1>>, src_port, 80, protocol) :
              a \in {0, 10}, src_port \in {0, 53, 12345, 65535},
              protocol \in {IP_PROTOCOL_TCP, IP_PROTOCOL_UDP}}
    \cup {GenericL3(<<0, 0, 0, 0>>, <<0, 0, 0, 0>>, 0, 0, protocol) :
              protocol \in {IP_PROTOCOL_TCP, IP_PROTOCOL_UDP}}

FlowIdSampleInit ==
    /\ fid \in SampleFlowIds
    /\ text = None
    /\ parsed = None
    /\ TrackerInit /\ RegistryInit /\ LoopInit /\ ReplayInit /\ ConcurrentInit

\* fid.to_string()
FormatFlowId ==
    /\ is_none(text)
    /\ text' = Some(to_string(fid))
    /\ UNCHANGED <<concurrent_vars, fid, parsed, tracker_vars, registry_vars, loop_vars, replay_vars>>

\* FlowId::new(text)
ParseFlowId ==
    /\ is_some(text) /\ is_none(parsed)
    /\ parsed' = Some(FlowId_new(unwrap(text)))
    /\ UNCHANGED <<concurrent_vars, fid, text, tracker_vars, registry_vars, loop_vars, replay_vars>>

NextFlowId == FormatFlowId \/ ParseFlowId

SpecFlowId == FlowIdSampleInit /\ [][NextFlowId]_vars

\* C4: FlowId text round-trip.  For every FlowId a parser can produce,
\* FlowId::new(fid.to_string()) = fid.
C4_FlowIdRoundTrip == is_some(parsed) => unwrap(parsed) = fid

----------------------------------------------------------------------------
(* db.rs and persist.rs: the persistence store *)

\* INSERT OR REPLACE INTO flows, keyed by the textual flow id
insert_flow(d, stats) ==
    [d EXCEPT !.flows = MapInsert(@, to_string(stats.flow_id),
        [first_sequence |-> stats.first_sequence,
         last_sequence |-> stats.last_sequence,
         packets_received |-> stats.packets_received,
         gaps_detected |-> stats.gaps_detected,
         total_lost_packets |-> stats.total_lost_packets,
         min_gap |-> stats.min_gap,
         max_gap |-> stats.max_gap])]

\* INSERT OR REPLACE INTO flow_statistics, flow_id being UNIQUE
insert_statistics(d, stats) ==
    [d EXCEPT !.flow_statistics = MapInsert(@, to_string(stats.flow_id),
        [total_bytes |-> stats.total_bytes,
         first_timestamp |-> stats.first_timestamp,
         last_timestamp |-> stats.last_timestamp,
         min_inter_arrival_us |-> stats.min_inter_arrival,
         max_inter_arrival_us |-> stats.max_inter_arrival,
         avg_inter_arrival_us |-> stats.avg_inter_arrival,
         protocol_distribution |->
            IF stats.protocol_distribution = EmptyMap THEN None
            ELSE Some(stats.protocol_distribution)])]

\* DateTime::format("%Y-%m-%d %H:%M:%S%.3f") of a time given in nanoseconds:
\* the text keeps whole milliseconds, and is stood for by their count
format_millis(timestamp) == timestamp \div 1000000

\* INSERT INTO sequence_gaps: always a new row
insert_gap(d, gap) ==
    [d EXCEPT !.sequence_gaps = Append(@,
        [flow_id |-> to_string(gap.flow_id),
         expected_sequence |-> gap.expected,
         received_sequence |-> gap.received,
         gap_size |-> gap.gap_size,
         detected_at |-> format_millis(gap.timestamp)])]

\* the statements persist_flows issues for a snapshot, in order
RECURSIVE FlowStatements(_)
FlowStatements(stats) ==
    IF stats = <<>> THEN <<>>
    ELSE <<[table |-> "flows", row |-> stats[1]],
           [table |-> "flow_statistics", row |-> stats[1]]>>
         \o FlowStatements(SubSeq(stats, 2, Len(stats)))

Statements(stats, gaps) ==
    FlowStatements(stats) \o [i \in DOMAIN gaps |-> [table |-> "sequence_gaps", row |-> gaps[i]]]

Execute(d, statement) ==
    CASE statement.table = "flows" -> insert_flow(d, statement.row)
      [] statement.table = "flow_statistics" -> insert_statistics(d, statement.row)
      [] statement.table = "sequence_gaps" -> insert_gap(d, statement.row)

\* the first n statements executed against d
RECURSIVE ExecuteFirst(_, _, _)
ExecuteFirst(d, statements, n) ==
    IF n = 0 THEN d
    ELSE Execute(ExecuteFirst(d, statements, n - 1), statements[n])

\* the ways a run of statements can go: all succeed (None), or statement k+1
\* fails after k succeeded (Some(k)); a poisoned lock is Some(0)
Failures(statements) == {None} \cup {Some(k) : k \in 0..(Len(statements) - 1)} \cup {Some(0)}

\* persist_flows on a snapshot: the store afterwards and the Result
PersistSnapshot(d, stats, gaps, fail_at) ==
    LET statements == Statements(stats, gaps) IN
    IF is_none(fail_at)
    THEN [db |-> ExecuteFirst(d, statements, Len(statements)), ok |-> TRUE]
    ELSE [db |-> ExecuteFirst(d, statements, unwrap(fail_at)), ok |-> FALSE]

\* PersistenceManager::persist_flows, the tracker being visited in the given order
persist_flows(d, fl, order, fail_at) ==
    PersistSnapshot(d, get_stats(fl, order), get_gaps(fl, order), fail_at)

\* PersistenceManager::persist_flow: the flows and flow_statistics rows of one
\* flow and no gap row; Ok and nothing written for a flow the tracker lacks
persist_flow(d, fl, order, flow_id, fail_at) ==
    LET found == SelectSeq(get_stats(fl, order), LAMBDA s : s.flow_id = flow_id)
    IN  IF found = <<>> THEN [db |-> d, ok |-> TRUE]
        ELSE PersistSnapshot(d, <<found[1]>>, <<>>, fail_at)

\* Database::clear_all: DELETE FROM flow_statistics, sequence_gaps and flows,
\* in this order; fail_at is Some(k) when statement k+1 fails after k succeeded
clear_all(d, fail_at) ==
    LET done == IF is_none(fail_at) THEN 3 ELSE unwrap(fail_at)
        d1 == IF done >= 1 THEN [d EXCEPT !.flow_statistics = EmptyMap] ELSE d
        d2 == IF done >= 2 THEN [d1 EXCEPT !.sequence_gaps = <<>>] ELSE d1
        d3 == IF done >= 3 THEN [d2 EXCEPT !.flows = EmptyMap] ELSE d2
    IN  [db |-> d3, ok |-> is_none(fail_at)]

\* PersistenceManager::persist_stats_and_gaps, the worker-side write of a
\* snapshot: it is absorbed whole, or it fails and is dropped
persist_stats_and_gaps(d, stats_snapshot, succeeds) ==
    IF succeeds
    THEN PersistSnapshot(d, stats_snapshot.stats, stats_snapshot.gaps, None)
    ELSE [db |-> d, ok |-> FALSE]

----------------------------------------------------------------------------
(* bin/analyzer/metrics.rs and bin/live_analyzer.rs *)

persist_packet_threshold == 100000

\* the ? operator on a Result: an Err leaves the enclosing function at once
Propagates(result) == ~result.ok

\* process_single_packet: Err when detect_and_parse fails, else the metrics
process_single_packet(reg, fl, data, timestamp, now) ==
    LET detected == detect_and_parse(reg, data) IN
    IF Propagates(detected.result)
    THEN [ok |-> FALSE, err |-> detected.result.err, reg |-> detected.reg, flows |-> fl,
          detect |-> detected.result, metrics |-> None]
    ELSE IF is_some(detected.result.val)
    THEN LET seq_info == unwrap(detected.result.val)
             analyzed == AnalyzedPacket(seq_info.sequence_number, seq_info.flow_id,
                                        timestamp, seq_info.payload_length)
             tracked == process_packet(fl, analyzed, now)
         IN  [ok |-> TRUE, err |-> "", reg |-> detected.reg, flows |-> tracked.flows,
              detect |-> detected.result,
              metrics |-> Some([detected |-> TRUE, gap_detected |-> is_some(tracked.ret)])]
    ELSE [ok |-> TRUE, err |-> "", reg |-> detected.reg, flows |-> fl,
          detect |-> detected.result,
          metrics |-> Some([detected |-> FALSE, gap_detected |-> FALSE])]

\* the frames the capture source delivers: MACsec frames of one channel with
\* packet numbers 1 and 4, a MACsec frame cut short, and an ARP frame
LoopFrames ==
    { With(create_macsec_packet, 19, 1),
      With(create_macsec_packet, 19, 4),
      SubSeq(create_macsec_packet, 1, 20),
      With(create_ipv4_tcp_packet, 13, 6) }

\* iterations of the loop per behaviour
MaxLoopEvents == 3

\* the capture clock: the timestamp of the n-th packet delivered
ArrivalTime(n) == 1500 * n

LoopEntry(event, detect, exit) == [event |-> event, detect |-> detect, exit |-> exit]

\* the (stats, gaps) snapshot the loop hands to a worker
Snapshot(fl, order) == [stats |-> get_stats(fl, order), gaps |-> get_gaps(fl, order)]

\* next_packet returned Ok(Some(raw_packet)); timer_due says whether
\* last_persist.elapsed() > persist_interval
LoopPacket(data, timer_due) ==
    /\ pc = "loop"
    /\ Len(loop_log) < MaxLoopEvents
    /\ packet_count' = packet_count + 1
    /\ \E r \in {process_single_packet(Registry, flows, data,
                                      ArrivalTime(packet_count + 1), now) :
                  now \in SystemTimeNow} :
           /\ flow_cache' = r.reg.flow_cache
           /\ cache_hits' = r.reg.cache_hits
           /\ cache_misses' = r.reg.cache_misses
           /\ ethertype_fast_path' = r.reg.ethertype_fast_path
           /\ unknown_protocol' = r.reg.unknown_protocol
           /\ flows' = r.flows
           /\ IF ~r.ok
              THEN /\ pc' = "returned"
                   /\ run_result' = Some([ok |-> FALSE, err |-> r.err])
                   /\ loop_log' = Append(loop_log,
                                         LoopEntry("packet", Some(r.detect), "returned"))
                   /\ UNCHANGED <<gap_count, workers>>
              ELSE /\ gap_count' = IF unwrap(r.metrics).detected
                                      /\ unwrap(r.metrics).gap_detected
                                   THEN gap_count + 1 ELSE gap_count
                   /\ IF timer_due \/ (packet_count + 1) % persist_packet_threshold = 0
                      THEN \E order \in IterationOrders(r.flows) :
                               workers' = Append(workers, Snapshot(r.flows, order))
                      ELSE UNCHANGED workers
                   /\ loop_log' = Append(loop_log,
                                         LoopEntry("packet", Some(r.detect), "loop"))
                   /\ UNCHANGED <<pc, run_result>>
    /\ UNCHANGED <<concurrent_vars, reorder_window_size, calls, reg_calls, flowid_vars, replay_vars, signal_vars, boundaries,
                   persist_calls, warnings, db,
                   final_persists, reports>>

\* next_packet returned Ok(None), taken for the end of the stream
LoopBoundary_EndOfStream ==
    /\ pc = "loop"
    /\ Len(loop_log) < MaxLoopEvents
    /\ pc' = "final"
    /\ loop_log' = Append(loop_log, LoopEntry("Ok(None)", None, "final"))
    /\ UNCHANGED <<concurrent_vars, tracker_vars, registry_vars, flowid_vars, replay_vars, signal_vars, boundaries, persist_calls,
                   warnings, packet_count, gap_count,
                   run_result, db, workers, final_persists, reports>>

\* next_packet returned Ok(None): continue
LoopBoundary ==
    /\ pc = "loop"
    /\ Len(loop_log) < MaxLoopEvents
    /\ loop_log' = Append(loop_log, LoopEntry("Ok(None)", None, "loop"))
    /\ UNCHANGED <<concurrent_vars, tracker_vars, registry_vars, flowid_vars, replay_vars, signal_vars, boundaries, persist_calls,
                   warnings, pc, packet_count, gap_count,
                   run_result, db, workers, final_persists, reports>>

\* the three breaks out of the loop
Break(event) ==
    /\ pc = "loop"
    /\ pc' = "final"
    /\ loop_log' = Append(loop_log, LoopEntry(event, None, "final"))
    /\ UNCHANGED <<concurrent_vars, tracker_vars, registry_vars, flowid_vars, replay_vars, signal_vars, boundaries, persist_calls,
                   warnings, packet_count, gap_count,
                   run_result, db, workers, final_persists, reports>>

\* next_packet returned Err(CaptureError::NoMorePackets)
LoopNoMorePackets == Break("Err(NoMorePackets)")
\* next_packet returned another Err
LoopCaptureError == Break("Err(e)")
\* SIGINT is delivered to the process while the loop runs: the signal stream
\* holds it until the loop polls sigint.recv()
SignalArrives ==
    /\ pc = "loop"
    /\ ~sigint_pending
    /\ sigint_pending' = TRUE
    /\ UNCHANGED <<concurrent_vars, tracker_vars, registry_vars, flowid_vars, replay_vars, boundaries,
                   pc, packet_count, gap_count, run_result, db, workers, final_persists,
                   reports, loop_log, persist_calls, warnings>>

\* a variant in which the signal branch only notes the signal
LoopShutdown_Continue ==
    /\ sigint_pending
    /\ sigint_pending' = FALSE
    /\ pc = "loop"
    /\ Len(loop_log) < MaxLoopEvents
    /\ loop_log' = Append(loop_log, LoopEntry("sigint", None, "loop"))
    /\ UNCHANGED <<concurrent_vars, tracker_vars, registry_vars, flowid_vars, replay_vars, boundaries,
                   pc, packet_count, gap_count, run_result, db, workers, final_persists,
                   reports, persist_calls, warnings>>

\* sigint.recv() completed: the signal is consumed and the loop breaks
LoopShutdown ==
    /\ sigint_pending
    /\ sigint_pending' = FALSE
    /\ pc = "loop"
    /\ pc' = "final"
    /\ loop_log' = Append(loop_log, LoopEntry("sigint", None, "final"))
    /\ UNCHANGED <<concurrent_vars, tracker_vars, registry_vars, flowid_vars, replay_vars, persist_calls,
                   warnings, packet_count, gap_count, boundaries,
                   run_result, db, workers, final_persists, reports>>

\* after the loop: persist_flows(flow_tracker)?, then print_analysis_report(..)?
FinalPersist(fail_at) ==
    /\ pc = "final"
    /\ \E order \in IterationOrders(flows) :
        /\ fail_at \in Failures(Statements(get_stats(flows, order), get_gaps(flows, order)))
        /\ LET r == persist_flows(db, flows, order, fail_at)
           IN  /\ db' = r.db
               /\ final_persists' = final_persists + 1
               /\ IF r.ok
                  THEN /\ reports' = reports + 1
                       /\ run_result' = Some([ok |-> TRUE, err |-> ""])
                  ELSE /\ UNCHANGED reports
                       /\ run_result' = Some([ok |-> FALSE, err |-> "DatabaseError"])
    /\ pc' = "returned"
    /\ UNCHANGED <<concurrent_vars, tracker_vars, registry_vars, flowid_vars, replay_vars, signal_vars, boundaries, persist_calls,
                   warnings, packet_count, gap_count,
                   workers, loop_log>>

\* a variant in which a failed task takes the analyzer down
WorkerRun_Fatal(i, succeeds) ==
    /\ i \in DOMAIN workers
    /\ db' = persist_stats_and_gaps(db, workers[i], succeeds).db
    /\ workers' = SubSeq(workers, 1, i - 1) \o SubSeq(workers, i + 1, Len(workers))
    /\ warnings' = IF succeeds THEN warnings ELSE warnings + 1
    /\ pc' = IF succeeds THEN pc ELSE "returned"
    /\ run_result' = IF succeeds THEN run_result
                     ELSE Some([ok |-> FALSE, err |-> "DatabaseError"])
    /\ UNCHANGED <<concurrent_vars, tracker_vars, registry_vars, flowid_vars, replay_vars, signal_vars, boundaries, persist_calls,
                   packet_count, gap_count, final_persists, reports, loop_log>>

\* a spawn_blocking task runs: it writes its snapshot; a failure is only logged
WorkerRun(i, succeeds) ==
    /\ i \in DOMAIN workers
    /\ db' = persist_stats_and_gaps(db, workers[i], succeeds).db
    /\ workers' = SubSeq(workers, 1, i - 1) \o SubSeq(workers, i + 1, Len(workers))
    /\ warnings' = IF succeeds THEN warnings ELSE warnings + 1
    /\ UNCHANGED <<concurrent_vars, tracker_vars, registry_vars, flowid_vars, replay_vars, signal_vars, boundaries, persist_calls,
                   pc, packet_count, gap_count,
                   run_result, final_persists, reports, loop_log>>

NextLoop ==
    \/ \E data \in LoopFrames, timer_due \in BOOLEAN : LoopPacket(data, timer_due)
    \/ LoopBoundary
    \/ LoopNoMorePackets
    \/ LoopCaptureError
    \/ SignalArrives
    \/ LoopShutdown
    \/ \E fail_at \in {None} \cup {Some(k) : k \in 0..(3 * MaxLoopEvents)} :
           FinalPersist(fail_at)
    \/ \E i \in 1..MaxLoopEvents, succeeds \in BOOLEAN : WorkerRun(i, succeeds)

SpecLoop == Init /\ [][NextLoop]_vars

\* the loop under a fair select: tokio::select! polls its branches in random
\* order, so a branch that stays ready is not passed over for ever
SpecLoopFair == Init /\ [][NextLoop]_vars /\ WF_vars(LoopShutdown)

----------------------------------------------------------------------------
(* Claims about the run_analyzer loop *)

\* the iterations on which detect_and_parse returned Err
ParseErrors == {i \in DOMAIN loop_log :
                   is_some(loop_log[i].detect) /\ ~unwrap(loop_log[i].detect).ok}

\* C3: parse errors are per-packet and never fatal.  When detect_and_parse
\* returns Err for a packet the loop goes on to the next packet; a parse error
\* never makes run_analyzer terminate and never prevents the final persistence.
C3_ParseErrorsNotFatal ==
    /\ \A i \in ParseErrors : loop_log[i].exit = "loop"
    /\ (pc = "returned" /\ ParseErrors # {}) => final_persists = 1

\* C10: clean termination.  Every way the loop ends is followed by exactly one
\* final persist_flows and by the final report: once run_analyzer has returned,
\* persist_flows was called once and the report was printed once.
C10_CleanTermination ==
    pc = "returned" => (final_persists = 1 /\ reports = 1)

\* the step is a loop iteration on which next_packet returned Ok(None)
BoundaryStep ==
    /\ Len(loop_log') = Len(loop_log) + 1
    /\ loop_log'[Len(loop_log')].event = "Ok(None)"

\* C13: loop-boundary signal.  When the capture source returns Ok(None) the
\* loop does not terminate, counts no packet and leaves the tracker and the
\* registry as they were: it stays in the loop, about to ask for the next packet.
C13_LoopBoundaryContinues ==
    [][BoundaryStep =>
          /\ pc = "loop" /\ pc' = "loop"
          /\ run_result' = None
          /\ loop_log'[Len(loop_log')].exit = "loop"
          /\ packet_count' = packet_count
          /\ gap_count' = gap_count
          /\ flows' = flows
          /\ Registry' = Registry
          /\ final_persists' = final_persists]_vars

\* an Ok(None) was followed by a further packet taken from the source
C13_Witness ==
    \E i \in DOMAIN loop_log :
        /\ loop_log[i].event = "Ok(None)"
        /\ i < Len(loop_log)
        /\ loop_log[i + 1].event = "packet"
        /\ packet_count >= 2

\* the step is one on which a spawn_blocking task logged a failed write
WarningStep == warnings' = warnings + 1

\* C21: persistence failures are isolated.  When a periodic persistence task
\* fails, the failure is only logged: the loop is where it was and goes on,
\* the tracker, the registry, the packet count and the store are unchanged by
\* the failure, and the other pending snapshots and the final persistence are
\* not given up.
C21_PersistenceFailuresIsolated ==
    [][WarningStep =>
          /\ pc' = pc
          /\ run_result' = run_result
          /\ flows' = flows
          /\ Registry' = Registry
          /\ packet_count' = packet_count
          /\ gap_count' = gap_count
          /\ db' = db
          /\ Len(workers') = Len(workers) - 1
          /\ final_persists' = final_persists
          /\ reports' = reports]_vars

\* two periodic tasks failed, and the run still took three packets and ended
\* with a successful final persistence and the report
C21_Witness ==
    /\ warnings = 2
    /\ packet_count = 3
    /\ pc = "returned"
    /\ unwrap(run_result).ok
    /\ final_persists = 1
    /\ reports = 1
    /\ db.flows # EmptyMap

\* the loop has taken the shutdown signal
ShutdownTaken == \E i \in DOMAIN loop_log : loop_log[i].event = "sigint"

\* C23: shutdown.  Once the loop takes the shutdown signal it has ended: the
\* signal is the last thing it handled, and from then on no packet is read
\* from the capture source or given to the tracker; and a pending shutdown
\* signal is eventually taken (or the loop has ended another way) under a fair
\* select, even while the capture source has a packet ready: the signal branch
\* is ready in every state of the loop in which a signal is pending, whatever
\* the packet branch can do there.
C23_Shutdown ==
    /\ []((sigint_pending /\ pc = "loop") => ENABLED <<LoopShutdown>>_vars)
    /\ [](\A i \in DOMAIN loop_log :
              loop_log[i].event = "sigint" => (i = Len(loop_log) /\ pc # "loop"))
    /\ [][ShutdownTaken =>
              /\ loop_log' = loop_log
              /\ packet_count' = packet_count
              /\ flows' = flows
              /\ calls' = calls
              /\ Registry' = Registry
              /\ capture' = capture]_vars
    /\ ((sigint_pending /\ pc = "loop") ~> (pc # "loop"))

\* the loop took two packets, then the signal, and run_analyzer returned
C23_Witness ==
    /\ ~sigint_pending
    /\ Len(loop_log) = 3
    /\ loop_log[1].event = "packet"
    /\ loop_log[2].event = "packet"
    /\ loop_log[3].event = "sigint"
    /\ packet_count = 2
    /\ pc = "returned"

----------------------------------------------------------------------------
(* capture/replay.rs: ReplayCapture, the PCAP replay source *)

\* next_packet calls per behaviour
MaxReplayCalls == 6
\* next_packet calls dropped in their sleep per behaviour
MaxCancels == 2

\* an f64 with the value num / den (den > 0), or NaN
F64(num, den) == [nan |-> FALSE, num |-> num, den |-> den]
NaN == [nan |-> TRUE, num |-> 0, den |-> 1]
\* m > 0.0, false for NaN as every f64 comparison with NaN is
f64_gt_zero(m) == ~m.nan /\ m.num > 0

\* enum ReplayMode
Fast == [mode |-> "Fast"]
OriginalTiming == [mode |-> "OriginalTiming"]
FixedRate(pps) == [mode |-> "FixedRate", pps |-> pps]
SpeedMultiplier(multiplier) == [mode |-> "SpeedMultiplier", multiplier |-> multiplier]

\* RawPacket: data is the number of the record in the file, 0 for the first
RawPacket(data, timestamp) == [data |-> data, timestamp |-> timestamp]

\* What is found at a path: no readable PCAP file, or a file whose reads are
\* the outcomes of capture.next() in order, <<ts>> for a record captured at
\* ts nanoseconds and <<>> for a read error; after the last one the pcap
\* reader reports NoMorePackets.
NoFile == [exists |-> FALSE, reads |-> <<>>]
PcapFile(reads) == [exists |-> TRUE, reads |-> reads]

\* the load loop of open: the packets read up to the first error or the end
RECURSIVE LoadPackets(_, _)
LoadPackets(reads, packets) ==
    IF reads = <<>> THEN [packets |-> packets, failed |-> FALSE]
    ELSE IF Head(reads) = <<>>
         THEN [packets |-> packets, failed |-> packets = <<>>]
         ELSE LoadPackets(Tail(reads),
                          Append(packets, RawPacket(Len(packets), Head(reads)[1])))

\* a variant of open that loads the file first and validates the mode last
open_LateCheck(path, replay_mode, enable_looping) ==
    IF ~path.exists
    THEN [result |-> Err("OpenFailed"), file_opened |-> TRUE]
    ELSE LET loaded == LoadPackets(path.reads, <<>>)
         IN  IF loaded.failed \/ loaded.packets = <<>>
             THEN [result |-> Err("OpenFailed"), file_opened |-> TRUE]
             ELSE IF replay_mode.mode = "FixedRate" /\ replay_mode.pps = 0
             THEN [result |-> Err("OpenFailed"), file_opened |-> TRUE]
             ELSE IF replay_mode.mode = "SpeedMultiplier"
                     /\ ~f64_gt_zero(replay_mode.multiplier)
             THEN [result |-> Err("OpenFailed"), file_opened |-> TRUE]
             ELSE [result |->
                      Ok([packets |-> loaded.packets,
                          current_index |-> 0,
                          loop_count |-> 0,
                          replay_mode |-> replay_mode,
                          enable_looping |-> enable_looping,
                          first_packet_time |-> Some(loaded.packets[1].timestamp),
                          replay_start_time |-> None,
                          pending_loop_reset |-> FALSE,
                          packets_replayed |-> 0,
                          loops_completed |-> 0]),
                   file_opened |-> TRUE]

\* ReplayCapture::open.  file_opened records whether Capture::from_file ran.
open(path, replay_mode, enable_looping) ==
    IF replay_mode.mode = "FixedRate" /\ replay_mode.pps = 0
    THEN [result |-> Err("OpenFailed"), file_opened |-> FALSE]
    ELSE IF replay_mode.mode = "SpeedMultiplier" /\ ~f64_gt_zero(replay_mode.multiplier)
    THEN [result |-> Err("OpenFailed"), file_opened |-> FALSE]
    ELSE IF ~path.exists
    THEN [result |-> Err("OpenFailed"), file_opened |-> TRUE]
    ELSE LET loaded == LoadPackets(path.reads, <<>>)
         IN  IF loaded.failed \/ loaded.packets = <<>>
             THEN [result |-> Err("OpenFailed"), file_opened |-> TRUE]
             ELSE [result |->
                      Ok([packets |-> loaded.packets,
                          current_index |-> 0,
                          loop_count |-> 0,
                          replay_mode |-> replay_mode,
                          enable_looping |-> enable_looping,
                          first_packet_time |-> Some(loaded.packets[1].timestamp),
                          replay_start_time |-> None,
                          pending_loop_reset |-> FALSE,
                          packets_replayed |-> 0,
                          loops_completed |-> 0]),
                   file_opened |-> TRUE]

\* the outcome of a timing step: Ok after tokio::time::sleep(wait) was awaited
\* (wait in nanoseconds, zero included), Ok with no sleep awaited, or Err
Delay(wait) == [ok |-> TRUE, err |-> "", sleeps |-> TRUE, wait |-> wait]
NoDelay == [ok |-> TRUE, err |-> "", sleeps |-> FALSE, wait |-> 0]
DelayErr(e) == [ok |-> FALSE, err |-> e, sleeps |-> FALSE, wait |-> 0]

\* the sleep that brings the replay to offset: checked_sub(elapsed), or none
WaitUntil(this, offset, now) ==
    IF is_none(this.replay_start_time) THEN DelayErr("ReadFailed")
    ELSE LET elapsed_since_start == now - unwrap(this.replay_start_time)
         IN  IF offset >= elapsed_since_start
             THEN Delay(offset - elapsed_since_start)
             ELSE NoDelay

\* ReplayCapture::apply_original_timing; duration_since fails for a packet
\* stamped earlier than the first one
apply_original_timing(this, packet, now) ==
    IF is_none(this.first_packet_time) THEN DelayErr("ReadFailed")
    ELSE IF packet.timestamp < unwrap(this.first_packet_time) THEN DelayErr("ReadFailed")
    ELSE WaitUntil(this, packet.timestamp - unwrap(this.first_packet_time), now)

\* ReplayCapture::apply_fixed_rate
apply_fixed_rate(pps) == Delay(1000000000 \div pps)

\* ReplayCapture::apply_speed_multiplier
apply_speed_multiplier(this, packet, multiplier, now) ==
    IF is_none(this.first_packet_time) THEN DelayErr("ReadFailed")
    ELSE IF packet.timestamp < unwrap(this.first_packet_time) THEN DelayErr("ReadFailed")
    ELSE LET packet_offset == packet.timestamp - unwrap(this.first_packet_time)
             scaled_ns == (packet_offset * multiplier.den) \div multiplier.num
         IN  WaitUntil(this, scaled_ns, now)

\* ReplayCapture::apply_timing_delay
apply_timing_delay(this, packet, now) ==
    CASE this.replay_mode.mode = "Fast" -> NoDelay
      [] this.replay_mode.mode = "OriginalTiming" -> apply_original_timing(this, packet, now)
      [] this.replay_mode.mode = "FixedRate" -> apply_fixed_rate(this.replay_mode.pps)
      [] this.replay_mode.mode = "SpeedMultiplier" ->
             apply_speed_multiplier(this, packet, this.replay_mode.multiplier, now)

\* a variant of the loop reset that clears the flag and does not rewind
LoopReset_NoRewind(this, now) ==
    IF this.pending_loop_reset
    THEN [this EXCEPT !.pending_loop_reset = FALSE,
                      !.replay_start_time = Some(now)]
    ELSE this

\* the pending loop reset that opens next_packet
LoopReset(this, now) ==
    IF this.pending_loop_reset
    THEN [this EXCEPT !.pending_loop_reset = FALSE,
                      !.current_index = 0,
                      !.replay_start_time = Some(now)]
    ELSE this

\* the reading of replay_start.elapsed() in a next_packet call made at time
\* now: a call that has itself set replay_start_time (the first of a source, or
\* one with a loop reset to apply) reads the clock again after that, so later
\* than the start; the packet it is then at is the first of the file, whose
\* offset is zero, so that any later reading gives the same outcome
ElapsedRead(this0, now) ==
    IF this0.pending_loop_reset \/ is_none(this0.replay_start_time)
    THEN now + 1 ELSE now

\* ReplayCapture::next_packet, called at time now: the source afterwards, the
\* result, and the time slept
next_packet(this0, now) ==
    LET this == LoopReset(this0, now)
    IN  IF this.current_index >= Len(this.packets)
        THEN IF ~this.enable_looping
             THEN [this |-> this, result |-> Err("NoMorePackets"), slept |-> 0]
             ELSE [this |-> [this EXCEPT !.loops_completed = @ + 1,
                                         !.pending_loop_reset = TRUE],
                   result |-> Ok(None), slept |-> 0]
        ELSE LET packet == this.packets[this.current_index + 1]
                 started == IF is_none(this.replay_start_time)
                            THEN [this EXCEPT !.replay_start_time = Some(now)]
                            ELSE this
                 delay == apply_timing_delay(started, packet, ElapsedRead(this0, now))
             IN  IF ~delay.ok
                 THEN [this |-> started, result |-> Err(delay.err), slept |-> 0]
                 ELSE [this |-> [started EXCEPT !.current_index = @ + 1,
                                                !.packets_replayed = @ + 1],
                       result |-> Ok(Some(RawPacket(packet.data, now + delay.wait))),
                       slept |-> delay.wait]

\* ReplayCapture::stats (AsyncPacketSource)
ReplayCapture_stats(this) ==
    [packets_received |-> this.packets_replayed, packets_dropped |-> 0]

\* a millisecond of capture time, in nanoseconds
Millis(n) == n * 1000000

\* The paths tried: nothing there, an empty file, a file whose first read
\* fails, files of one to three records (one with a record stamped before
\* the first), and a file that turns unreadable after two records.
Paths ==
    {NoFile,
     PcapFile(<<>>),
     PcapFile(<< <<>> >>),
     PcapFile(<< <<Millis(0)>> >>),
     PcapFile(<< <<Millis(0)>>, <<Millis(1)>> >>),
     PcapFile(<< <<Millis(1)>>, <<Millis(0)>> >>),
     PcapFile(<< <<Millis(0)>>, <<Millis(1)>>, <<Millis(3)>> >>),
     PcapFile(<< <<Millis(0)>>, <<Millis(1)>>, <<>>, <<Millis(3)>> >>)}

ReplayModes ==
    {Fast, OriginalTiming, FixedRate(0), FixedRate(1000), FixedRate(2000000000),
     SpeedMultiplier(NaN), SpeedMultiplier(F64(-1, 1)), SpeedMultiplier(F64(0, 1)),
     SpeedMultiplier(F64(2, 1)), SpeedMultiplier(F64(1, 2))}

\* ReplayCapture::open is called, once
Open(path, replay_mode, enable_looping) ==
    /\ open_calls = <<>>
    /\ \E r \in {open(path, replay_mode, enable_looping)} :
           /\ capture' = IF r.result.ok THEN Some(r.result.val) ELSE None
           /\ open_calls' = Append(open_calls,
                                   [path |-> path, replay_mode |-> replay_mode,
                                    enable_looping |-> enable_looping,
                                    result |-> r.result, file_opened |-> r.file_opened])
    /\ UNCHANGED <<replay_calls, clock, cancelled>>
    /\ UNCHANGED <<concurrent_vars, tracker_vars, registry_vars, flowid_vars, loop_vars>>

\* next_packet is called on the source and runs to completion
NextPacket ==
    /\ is_some(capture)
    /\ Len(replay_calls) < MaxReplayCalls
    /\ \E r \in {next_packet(unwrap(capture), clock)} :
           /\ capture' = Some(r.this)
           /\ replay_calls' = Append(replay_calls,
                                     [result |-> r.result, before |-> unwrap(capture),
                                      after |-> r.this, slept |-> r.slept])
           /\ clock' = clock + r.slept + 1
    /\ UNCHANGED <<open_calls, cancelled>>
    /\ UNCHANGED <<concurrent_vars, tracker_vars, registry_vars, flowid_vars, loop_vars>>

NextReplay ==
    \/ \E path \in Paths, replay_mode \in ReplayModes, enable_looping \in BOOLEAN :
           Open(path, replay_mode, enable_looping)
    \/ NextPacket

SpecReplay == Init /\ [][NextReplay]_vars

\* a variant that counts the packet before it sleeps
next_packet_suspended_CountFirst(this0, now) ==
    LET this == LoopReset(this0, now)
    IN  IF this.current_index >= Len(this.packets)
        THEN [this |-> this, suspended |-> FALSE, wait |-> 0]
        ELSE LET packet == this.packets[this.current_index + 1]
                 started == IF is_none(this.replay_start_time)
                            THEN [this EXCEPT !.replay_start_time = Some(now)]
                            ELSE this
                 delay == apply_timing_delay(started, packet, ElapsedRead(this0, now))
             IN  [this |-> [started EXCEPT !.current_index = @ + 1,
                                           !.packets_replayed = @ + 1],
                  suspended |-> delay.ok /\ delay.sleeps,
                  wait |-> delay.wait]

\* ReplayCapture::next_packet up to the await inside apply_timing_delay: the
\* source as the call has left it when the sleep begins, and the length of the
\* sleep, which may be of zero length; suspended is FALSE when the call
\* returns without awaiting a sleep
next_packet_suspended(this0, now) ==
    LET this == LoopReset(this0, now)
    IN  IF this.current_index >= Len(this.packets)
        THEN [this |-> this, suspended |-> FALSE, wait |-> 0]
        ELSE LET packet == this.packets[this.current_index + 1]
                 started == IF is_none(this.replay_start_time)
                            THEN [this EXCEPT !.replay_start_time = Some(now)]
                            ELSE this
                 delay == apply_timing_delay(started, packet, ElapsedRead(this0, now))
             IN  [this |-> started,
                  suspended |-> delay.ok /\ delay.sleeps,
                  wait |-> delay.wait]

\* next_packet is called, reaches its sleep, and is dropped before the sleep
\* ends: the other branch of the select! completed first
NextPacketCancelled ==
    /\ is_some(capture)
    /\ Len(cancelled) < MaxCancels
    /\ \E r \in {next_packet_suspended(unwrap(capture), clock)} :
           /\ r.suspended
           /\ capture' = Some(r.this)
           /\ cancelled' = Append(cancelled,
                                  [before |-> unwrap(capture), after |-> r.this,
                                   now |-> clock, wait |-> r.wait])
           /\ \E elapsed \in {0, r.wait \div 2} : clock' = clock + elapsed + 1
    /\ UNCHANGED <<open_calls, replay_calls>>
    /\ UNCHANGED <<concurrent_vars, tracker_vars, registry_vars, flowid_vars, loop_vars>>

NextCancel ==
    \/ \E path \in Paths, replay_mode \in ReplayModes, enable_looping \in BOOLEAN :
           Open(path, replay_mode, enable_looping)
    \/ NextPacket
    \/ NextPacketCancelled

SpecCancel == Init /\ [][NextCancel]_vars

----------------------------------------------------------------------------
(* Claims about the replay source *)

\* the next_packet call returned Ok(Some(p)) with p the record numbered data
ReturnsPacket(call, data) ==
    /\ call.result.ok
    /\ is_some(call.result.val)
    /\ unwrap(call.result.val).data = data

\* the next_packet call returned Ok(None)
ReturnsNone(call) == call.result.ok /\ is_none(call.result.val)

\* the number of Ok(None) among the first n next_packet calls
RECURSIVE NoneCount(_)
NoneCount(n) ==
    IF n = 0 THEN 0
    ELSE NoneCount(n - 1) + (IF ReturnsNone(replay_calls[n]) THEN 1 ELSE 0)

\* C11: replay looping.  With looping enabled and a file of N >= 1 packets the
\* successive next_packet calls return packets 0..N-1 in file order, then
\* Ok(None) exactly once, then packet 0 again, and so on; each end-of-file
\* adds exactly 1 to loops_completed, two consecutive calls never both return
\* Ok(None), and Err(NoMorePackets) is never returned.
C11_ReplayLooping ==
    (is_some(capture) /\ unwrap(capture).enable_looping) =>
        \A i \in DOMAIN replay_calls :
            LET call == replay_calls[i]
                N == Len(call.before.packets)
                k == (i - 1) % (N + 1)
            IN  /\ N >= 1
                /\ IF k < N
                   THEN /\ ReturnsPacket(call, k)
                        /\ call.after.loops_completed = call.before.loops_completed
                   ELSE /\ ReturnsNone(call)
                        /\ call.after.loops_completed = call.before.loops_completed + 1
                /\ call.after.loops_completed = NoneCount(i)
                /\ (i > 1 /\ ReturnsNone(call)) => ~ReturnsNone(replay_calls[i - 1])
                /\ call.result.err # "NoMorePackets"

\* C12: replay end of stream.  With looping disabled next_packet returns the N
\* loaded packets once in file order, then Err(NoMorePackets) on the next call
\* and on every later call, and those calls change neither packets_replayed
\* nor loops_completed nor the cursor.
C12_ReplayEndOfStream ==
    (is_some(capture) /\ ~unwrap(capture).enable_looping) =>
        \A i \in DOMAIN replay_calls :
            LET call == replay_calls[i]
                N == Len(call.before.packets)
            IN  IF i <= N
                THEN ReturnsPacket(call, i - 1)
                ELSE /\ call.result = Err("NoMorePackets")
                     /\ call.after.packets_replayed = call.before.packets_replayed
                     /\ call.after.loops_completed = call.before.loops_completed
                     /\ call.after.current_index = call.before.current_index

\* the timing mode breaks a configuration invariant: FixedRate(0), or
\* SpeedMultiplier(m) with m not > 0 (zero, negative or NaN)
InvalidMode(replay_mode) ==
    \/ replay_mode.mode = "FixedRate" /\ replay_mode.pps = 0
    \/ replay_mode.mode = "SpeedMultiplier"
       /\ (replay_mode.multiplier.nan \/ replay_mode.multiplier.num <= 0)

\* C15: eager configuration check.  ReplayCapture::open with FixedRate(0), or
\* with SpeedMultiplier(m) where m is not > 0, returns Err(OpenFailed) before
\* the file is opened, whatever the path; hence no ReplayCapture with an
\* invalid timing mode ever exists.
C15_EagerConfigurationCheck ==
    /\ \A i \in DOMAIN open_calls :
           InvalidMode(open_calls[i].replay_mode)
           => /\ open_calls[i].result = Err("OpenFailed")
              /\ ~open_calls[i].file_opened
    /\ is_some(capture) => ~InvalidMode(unwrap(capture).replay_mode)

\* open was refused for an invalid mode although the path held a good file
C15_Witness ==
    \E i \in DOMAIN open_calls :
        /\ InvalidMode(open_calls[i].replay_mode)
        /\ open_calls[i].path.exists
        /\ Len(open_calls[i].path.reads) = 3
        /\ open_calls[i].replay_mode.mode = "SpeedMultiplier"
        /\ open_calls[i].replay_mode.multiplier.nan
        /\ is_none(capture)

----------------------------------------------------------------------------
(* persist.rs: persist_flows called on a tracker that keeps receiving packets *)

\* persist_flows calls per behaviour
MaxPersists == 2

\* the packets fed between the persist_flows calls: one MACsec channel with a
\* hole after packet 1, and one IPsec association
PersistInputs ==
    {AnalyzedPacket(U32(n), FlowM, CaptureTime(U32(n)), 100) : n \in {1, 3}}
    \cup {AnalyzedPacket(U32(1), FlowI, CaptureTime(U32(1)), 200)}

\* PersistenceManager::persist_flows(tracker) is called
Persist(order, fail_at) ==
    /\ Len(persist_calls) < MaxPersists
    /\ order \in IterationOrders(flows)
    /\ fail_at \in Failures(Statements(get_stats(flows, order), get_gaps(flows, order)))
    /\ \E r \in {persist_flows(db, flows, order, fail_at)} :
           /\ db' = r.db
           /\ persist_calls' = Append(persist_calls,
                                      [op |-> "persist_flows",
                                       stats |-> get_stats(flows, order),
                                       gaps |-> get_gaps(flows, order),
                                       ok |-> r.ok, before |-> db, after |-> r.db])
    /\ UNCHANGED <<concurrent_vars, tracker_vars, registry_vars, flowid_vars, replay_vars, signal_vars, boundaries, pc, packet_count,
                   gap_count, run_result, workers, final_persists, reports, loop_log,
                   warnings>>

\* the one flow's statistics, or none when the tracker lacks the flow
StatsOfFlow(order, flow_id) ==
    SelectSeq(get_stats(flows, order), LAMBDA s : s.flow_id = flow_id)

\* PersistenceManager::persist_flow(tracker, flow_id) is called; the lock is
\* taken, and a statement can fail, only when the tracker has the flow
PersistFlow(order, flow_id, fail_at) ==
    /\ Len(persist_calls) < MaxPersists
    /\ order \in IterationOrders(flows)
    /\ fail_at \in IF StatsOfFlow(order, flow_id) = <<>> THEN {None}
                   ELSE Failures(Statements(StatsOfFlow(order, flow_id), <<>>))
    /\ \E r \in {persist_flow(db, flows, order, flow_id, fail_at)} :
           /\ db' = r.db
           /\ persist_calls' = Append(persist_calls,
                                      [op |-> "persist_flow",
                                       stats |-> StatsOfFlow(order, flow_id),
                                       gaps |-> <<>>,
                                       ok |-> r.ok, before |-> db, after |-> r.db])
    /\ UNCHANGED <<concurrent_vars, tracker_vars, registry_vars, flowid_vars, replay_vars, signal_vars, boundaries, pc, packet_count,
                   gap_count, run_result, workers, final_persists, reports, loop_log,
                   warnings>>

\* Database::clear_all is called on the store
ClearAll(fail_at) ==
    /\ Len(persist_calls) < MaxPersists
    /\ \E r \in {clear_all(db, fail_at)} :
           /\ db' = r.db
           /\ persist_calls' = Append(persist_calls,
                                      [op |-> "clear_all", stats |-> <<>>, gaps |-> <<>>,
                                       ok |-> r.ok, before |-> db, after |-> r.db])
    /\ UNCHANGED <<concurrent_vars, tracker_vars, registry_vars, flowid_vars, replay_vars, signal_vars, boundaries, pc, packet_count,
                   gap_count, run_result, workers, final_persists, reports, loop_log,
                   warnings>>

NextPersist ==
    \/ \E packet \in PersistInputs : ProcessPacket(packet)
    \/ \E order \in IterationOrders(flows),
          fail_at \in {None} \cup {Some(k) : k \in 0..(2 * MaxPackets)} :
           Persist(order, fail_at)
    \/ \E order \in IterationOrders(flows), flow_id \in {FlowM, FlowI, FlowG},
          fail_at \in {None, Some(0), Some(1)} :
           PersistFlow(order, flow_id, fail_at)
    \/ \E fail_at \in {None, Some(0), Some(1), Some(2)} : ClearAll(fail_at)

SpecPersist == Init /\ [][NextPersist]_vars

\* C14: idempotent persistence.  Persisting the same (flow stats, gaps)
\* snapshot twice leaves the store as persisting it once does: when two
\* successive persist_flows calls succeed on the same snapshot, the store
\* after the second equals the store after the first, with the same flow
\* rows and no further gap record.
C14_IdempotentPersistence ==
    \A i \in DOMAIN persist_calls :
        (/\ i > 1
         /\ persist_calls[i].op = "persist_flows"
         /\ persist_calls[i - 1].op = "persist_flows"
         /\ persist_calls[i].ok /\ persist_calls[i - 1].ok
         /\ persist_calls[i].stats = persist_calls[i - 1].stats
         /\ persist_calls[i].gaps = persist_calls[i - 1].gaps)
        => /\ persist_calls[i].after.flows = persist_calls[i - 1].after.flows
           /\ persist_calls[i].after.flow_statistics
                  = persist_calls[i - 1].after.flow_statistics
           /\ persist_calls[i].after.sequence_gaps = persist_calls[i - 1].after.sequence_gaps

----------------------------------------------------------------------------
(* Further claims about the registry *)

\* the EtherType of a frame that has an Ethernet header
EtherType(data) == u16_from_be_bytes(At(data, 12), At(data, 13))

\* the frame is shorter than each parser needs: 30 bytes for MACsec, 42 for
\* ESP and for TCP/UDP
BelowEveryMinimum(data) == Len(data) < 30 /\ Len(data) < 42

\* C16: unsupported input is not an error.  detect_and_parse returns Ok(None),
\* never Err, for a buffer shorter than 14 bytes (no counter and no cache
\* change), for a frame below the minimum size of every supported parser, and
\* for a frame whose EtherType is neither 0x88E5 nor 0x0800 (unknown_protocol
\* +1, every other counter and the cache unchanged).
C16_UnsupportedInputNotAnError ==
    \A i \in DOMAIN reg_calls :
        LET c == reg_calls[i] IN
        c.op = "detect_and_parse" =>
            /\ Len(c.data) < 14 => (c.result = Ok(None) /\ c.after = c.before)
            /\ BelowEveryMinimum(c.data) => c.result = Ok(None)
            /\ (Len(c.data) >= 14 /\ EtherType(c.data) \notin {35045, 2048})
               => /\ c.result = Ok(None)
                  /\ c.after = [c.before EXCEPT !.unknown_protocol = @ + 1]

\* C17: Tier 1 fast path.  A frame with EtherType 0x88E5 is handed directly to
\* the MACsec parser: the call returns what that parser returns,
\* ethertype_fast_path increases by exactly 1, and cache_hits, cache_misses,
\* unknown_protocol and the flow cache are unchanged, whatever the parser
\* returns.
C17_Tier1FastPath ==
    \A i \in DOMAIN reg_calls :
        LET c == reg_calls[i] IN
        (c.op = "detect_and_parse" /\ Len(c.data) >= 14 /\ EtherType(c.data) = 35045)
        => /\ c.result = macsec_parse_sequence(c.data)
           /\ c.after.ethertype_fast_path = c.before.ethertype_fast_path + 1
           /\ c.after.cache_hits = c.before.cache_hits
           /\ c.after.cache_misses = c.before.cache_misses
           /\ c.after.unknown_protocol = c.before.unknown_protocol
           /\ c.after.flow_cache = c.before.flow_cache

\* the fast path was taken for a frame the parser accepts and for one it
\* rejects, after an IPv4 flow had been cached
C17_Witness ==
    \E i, j, k \in DOMAIN reg_calls :
        /\ i < j /\ j < k
        /\ reg_calls[i].after.flow_cache # EmptyMap
        /\ reg_calls[j].op = "detect_and_parse" /\ reg_calls[k].op = "detect_and_parse"
        /\ Len(reg_calls[j].data) >= 14 /\ EtherType(reg_calls[j].data) = 35045
        /\ Len(reg_calls[k].data) >= 14 /\ EtherType(reg_calls[k].data) = 35045
        /\ reg_calls[j].result.ok /\ is_some(reg_calls[j].result.val)
        /\ ~reg_calls[k].result.ok
        /\ ethertype_fast_path = 2

\* a well-formed UDP-over-IPv4 frame
IsUdpFrame(data) ==
    /\ Len(data) >= 42
    /\ EtherType(data) = 2048
    /\ At(data, 23) = IP_PROTOCOL_UDP
    /\ Len(data) >= 14 + Ihl(data) + 8

\* C18: UDP is a tracked Generic L3 flow.  A well-formed UDP-over-IPv4 frame
\* makes detect_and_parse return Ok(Some(info)) whose flow_id is the GenericL3
\* 5-tuple with protocol 17; it is not counted as unknown_protocol and its
\* flow is cached.
C18_UdpTracked ==
    \A i \in DOMAIN reg_calls :
        LET c == reg_calls[i] IN
        (c.op = "detect_and_parse" /\ IsUdpFrame(c.data))
        => /\ c.result.ok /\ is_some(c.result.val)
           /\ Some(unwrap(c.result.val).flow_id)
                  = provisional_transport(c.data, IP_PROTOCOL_UDP)
           /\ c.after.unknown_protocol = c.before.unknown_protocol
           /\ unwrap(c.result.val).flow_id \in DOMAIN c.after.flow_cache

\* the result of the parser Tier 2 found in the cache for the call's frame,
\* None when the call did not reach a cached parser
CachedParser(c) ==
    IF c.op = "detect_and_parse" /\ Len(c.data) >= 14 /\ EtherType(c.data) = 2048
    THEN LET flow_id == extract_provisional_flow_id(c.data)
             parser_idx == IF is_some(flow_id)
                           THEN lookup_cache(c.before.flow_cache, unwrap(flow_id))
                           ELSE None
         IN  IF is_some(parser_idx)
             THEN Some(parse_sequence(unwrap(parser_idx), c.data))
             ELSE None
    ELSE None

\* C27: Tier 2 counting and eviction.  cache_hits increases on a
\* detect_and_parse call only when the cached parser returned Ok(Some) for that
\* packet; a call on which the cached parser returns Err or declines with
\* Ok(None) does not increase cache_hits, and a declined entry is out of the
\* cache when Tier 3 runs.
C27_Tier2CountingAndEviction ==
    \A i \in DOMAIN reg_calls :
        LET c == reg_calls[i]
            cached == CachedParser(c)
        IN  /\ c.after.cache_hits # c.before.cache_hits
                => /\ is_some(cached)
                   /\ unwrap(cached).ok /\ is_some(unwrap(cached).val)
                   /\ c.after.cache_hits = c.before.cache_hits + 1
            /\ (is_some(cached) /\ ~(unwrap(cached).ok /\ is_some(unwrap(cached).val)))
                => c.after.cache_hits = c.before.cache_hits
            /\ (is_some(cached) /\ unwrap(cached).ok /\ is_none(unwrap(cached).val))
                => c.after = FullDetection(
                                 [c.before EXCEPT !.flow_cache = evict_cache(@,
                                      unwrap(extract_provisional_flow_id(c.data)))],
                                 c.data).reg

\* C28: parse errors are not cached.  Whenever detect_and_parse returns Err,
\* from Tier 2 or from Tier 3, the flow cache is exactly as it was before the
\* call: no entry was inserted and none evicted.
C28_ParseErrorsNotCached ==
    \A i \in DOMAIN reg_calls :
        LET c == reg_calls[i] IN
        (c.op = "detect_and_parse" /\ ~c.result.ok)
            => c.after.flow_cache = c.before.flow_cache

\* with a flow in the cache, one call returned Err from the cached parser and
\* another returned Err from Tier 3
C28_Witness ==
    \E i, j \in DOMAIN reg_calls :
        /\ ~reg_calls[i].result.ok
        /\ is_some(CachedParser(reg_calls[i]))
        /\ reg_calls[i].before.flow_cache # EmptyMap
        /\ ~reg_calls[j].result.ok
        /\ is_none(CachedParser(reg_calls[j]))
        /\ EtherType(reg_calls[j].data) = 2048
        /\ reg_calls[j].after.cache_misses = reg_calls[j].before.cache_misses + 1
        /\ reg_calls[j].before.flow_cache # EmptyMap

----------------------------------------------------------------------------
(* Further claims about the flow tracker *)

\* the clock reading of a process_packet call: the stamp of the gap it
\* returned; a call that returns no gap reads no clock
ClockRead(c) == IF is_some(c.ret) THEN unwrap(c.ret).timestamp ELSE 0

\* a tracker fed only the first n process_packet calls made on flow f, each
\* with the clock reading it had
RECURSIVE FedAlone(_, _)
FedAlone(f, n) ==
    IF n = 0 THEN EmptyMap
    ELSE LET c == CallsOn(f)[n]
         IN  process_packet(FedAlone(f, n - 1), c.packet, ClockRead(c)).flows

\* the flows on which process_packet was called
FlowsFed == {calls[i].packet.flow_id : i \in DOMAIN calls}

\* C19: flow independence.  A process_packet call for a packet of flow A
\* changes no field of any other flow B: whatever the interleaving, the state
\* of each flow, hence its stats and gaps, is the one obtained by feeding
\* that flow's packets alone in the same relative order.
C19_FlowIndependence ==
    /\ DOMAIN flows = FlowsFed
    /\ \A f \in DOMAIN flows :
           LET alone == FedAlone(f, Len(CallsOn(f)))
           IN  /\ flows[f] = alone[f]
               /\ get_stats(flows, <<f>>) = get_stats(alone, <<f>>)
               /\ get_gaps(flows, <<f>>) = get_gaps(alone, <<f>>)
    /\ \A i \in DOMAIN calls :
           LET f == calls[i].packet.flow_id
               earlier == SelectSeq(SubSeq(calls, 1, i - 1), LAMBDA c : c.packet.flow_id = f)
           IN  calls[i].pre = IF earlier = <<>> THEN None
                              ELSE Some(earlier[Len(earlier)].post)

\* two flows were fed alternately, two packets each; one of them has a gap
C19_Witness ==
    /\ Len(calls) = 4
    /\ calls[1].packet.flow_id = FlowM /\ calls[2].packet.flow_id = FlowI
    /\ calls[3].packet.flow_id = FlowM /\ calls[4].packet.flow_id = FlowI
    /\ flows[FlowM].packets_received = 2 /\ flows[FlowM].gaps = <<>>
    /\ flows[FlowI].packets_received = 2 /\ Len(flows[FlowI].gaps) = 1

\* C20: unconditional statistics.  Every process_packet call, whatever the
\* packet is to its flow (first, in order, forward jump, late, duplicate, or
\* GenericL3), increases that flow's packets_received by exactly 1 and its
\* total_bytes by the packet's payload_length; packets_received of a flow
\* never decreases.
C20_UnconditionalStatistics ==
    /\ \A i \in DOMAIN calls :
           LET c == calls[i]
               before == IF is_some(c.pre) THEN unwrap(c.pre) ELSE FlowStateNew
           IN  /\ c.post.packets_received = before.packets_received + 1
               /\ c.post.total_bytes = before.total_bytes + c.packet.payload_length
    /\ \A f \in DOMAIN flows :
           /\ flows[f].packets_received = Len(CallsOn(f))
           /\ \A i \in DOMAIN CallsOn(f) :
                  /\ CallsOn(f)[i].post.packets_received <= flows[f].packets_received
                  /\ i > 1 => CallsOn(f)[i].post.packets_received
                                  >= CallsOn(f)[i - 1].post.packets_received

\* one flow received a first packet, the next in order, a forward jump and a
\* late duplicate, and counted all four
C20_Witness ==
    /\ Len(CallsOn(FlowM)) = 4
    /\ CallsOn(FlowM)[1].packet.sequence_number = U32(0)
    /\ CallsOn(FlowM)[2].packet.sequence_number = U32(1)
    /\ CallsOn(FlowM)[3].packet.sequence_number = U32(3)
    /\ CallsOn(FlowM)[4].packet.sequence_number = U32(1)
    /\ flows[FlowM].packets_received = 4
    /\ flows[FlowM].total_bytes = 400

----------------------------------------------------------------------------
(* The memory accesses of the hot path: which bytes of the buffer each        *)
(* function indexes, where it cuts the buffer (&data[from..]), and which      *)
(* entries of self.parsers it indexes.  Indexing past the end, cutting past   *)
(* the end, or indexing a missing parser is a panic.                          *)

Accesses(bytes, cuts, entries) == [bytes |-> bytes, cuts |-> cuts, entries |-> entries]
NoAccess == Accesses({}, {}, {})
Join(a, b) == Accesses(a.bytes \cup b.bytes, a.cuts \cup b.cuts, a.entries \cup b.entries)
Indexes(bytes) == Accesses(bytes, {}, {})

\* every access stays inside the buffer and inside self.parsers
InBounds(a, data) ==
    /\ \A i \in a.bytes : 0 <= i /\ i < Len(data)
    /\ \A from \in a.cuts : 0 <= from /\ from <= Len(data)
    /\ \A idx \in a.entries : 0 <= idx /\ idx < Len(parsers)

\* MACsecParser::matches and parse_sequence; data[12] == 0x88 && data[13] ==
\* 0xE5 reads byte 13 only when byte 12 passed
macsec_accesses(data) ==
    IF Len(data) < 14 THEN NoAccess
    ELSE IF At(data, 12) # 136 THEN Indexes({12})
    ELSE IF ~macsec_matches(data) THEN Indexes({12, 13})
    ELSE IF Len(data) < 30 THEN Indexes({12, 13})
    ELSE Indexes({12, 13} \cup 16..27)

\* IPsecParser::matches and parse_sequence; data[12] != 0x08 || data[13] !=
\* 0x00 reads byte 13 only when byte 12 passed
ipsec_accesses(data) ==
    IF Len(data) < 42 THEN NoAccess
    ELSE IF At(data, 12) # 8 THEN Indexes({12})
    ELSE IF At(data, 13) # 0 THEN Indexes({12, 13})
    ELSE IF ~ipsec_matches(data) THEN Indexes({12, 13, 23})
    ELSE LET ip_header_end == 14 + Ihl(data)
             head == Indexes({12, 13, 23, 14})
         IN  IF Len(data) < ip_header_end THEN head
             ELSE LET cut == Join(head, Accesses(30..33, {ip_header_end}, {}))
                  IN  IF Len(data) - ip_header_end < 8 THEN cut
                      ELSE Join(cut, Indexes(ip_header_end..(ip_header_end + 7)))

\* the variant of the TCP/UDP footprint without the check of the IP header length
generic_l3_accesses_NoHeaderCheck(data) ==
    IF Len(data) < 42 THEN NoAccess
    ELSE IF At(data, 12) # 8 THEN Indexes({12})
    ELSE IF At(data, 13) # 0 THEN Indexes({12, 13})
    ELSE IF ~generic_l3_matches(data) THEN Indexes({12, 13, 23})
    ELSE LET ip_header_end == 14 + Ihl(data)
         IN  Join(Indexes({12, 13, 23, 14}), Accesses(26..33, {ip_header_end}, {}))

\* GenericL3Parser::matches and parse_sequence; byte 13 is read only when
\* byte 12 passed
generic_l3_accesses(data) ==
    IF Len(data) < 42 THEN NoAccess
    ELSE IF At(data, 12) # 8 THEN Indexes({12})
    ELSE IF At(data, 13) # 0 THEN Indexes({12, 13})
    ELSE IF ~generic_l3_matches(data) THEN Indexes({12, 13, 23})
    ELSE LET ip_header_end == 14 + Ihl(data)
             head == Indexes({12, 13, 23, 14})
         IN  IF Len(data) < ip_header_end THEN head
             ELSE LET cut == Join(head, Accesses(26..33, {ip_header_end}, {}))
                      transport_len == Len(data) - ip_header_end
                  IN  IF transport_len < 4 THEN cut
                      ELSE LET ports == Join(cut, Indexes(ip_header_end..(ip_header_end + 3)))
                           IN  IF At(data, 23) # IP_PROTOCOL_TCP THEN ports
                               ELSE IF transport_len < 8 THEN ports
                               ELSE Join(ports,
                                         Indexes((ip_header_end + 4)..(ip_header_end + 7)
                                                 \cup (IF transport_len > 12
                                                       THEN {ip_header_end + 12} ELSE {})))

\* ProtocolRegistry::extract_provisional_flow_id
provisional_accesses(data) ==
    IF Len(data) < 34 THEN NoAccess
    ELSE IF At(data, 23) \notin {50, 6, 17} THEN Indexes({23})
    ELSE IF Len(data) < 42 THEN Indexes({23})
    ELSE LET ip_header_end == 14 + Ihl(data)
         IN  IF Len(data) < ip_header_end + 4 THEN Indexes({23, 14})
             ELSE Accesses({23, 14}
                              \cup (IF At(data, 23) = 50 THEN 30..33 ELSE 26..33)
                              \cup ip_header_end..(ip_header_end + 3),
                           {ip_header_end}, {})

\* self.parsers[idx].parser.parse_sequence(data)
parser_accesses(idx, data) ==
    Join(Accesses({}, {}, {idx}),
         IF idx < 0 \/ idx >= Len(parsers) THEN NoAccess
         ELSE CASE parsers[idx + 1].name = "MACsec" -> macsec_accesses(data)
                [] parsers[idx + 1].name = "IPsec-ESP" -> ipsec_accesses(data)
                [] parsers[idx + 1].name = "Generic-L3" -> generic_l3_accesses(data))

\* Tier 3: the parsers tried in order, up to the first that does not decline
RECURSIVE tier3_accesses(_, _)
tier3_accesses(data, idx) ==
    IF idx >= Len(parsers) THEN NoAccess
    ELSE LET r == parse_sequence(idx, data)
         IN  IF ~r.ok \/ is_some(r.val) THEN parser_accesses(idx, data)
             ELSE Join(parser_accesses(idx, data), tier3_accesses(data, idx + 1))

\* ProtocolRegistry::detect_and_parse
detect_and_parse_accesses(reg, data) ==
    IF Len(data) < 14 THEN NoAccess
    ELSE LET ethertype == u16_from_be_bytes(At(data, 12), At(data, 13))
             tier1 == Indexes({12, 13})
         IN  IF ethertype = 35045 THEN Join(tier1, parser_accesses(0, data))
             ELSE IF ethertype # 2048 THEN tier1
             ELSE LET flow_id == extract_provisional_flow_id(data)
                      parser_idx == IF is_some(flow_id)
                                    THEN lookup_cache(reg.flow_cache, unwrap(flow_id))
                                    ELSE None
                      tier2 == Join(tier1, provisional_accesses(data))
                  IN  IF is_some(parser_idx)
                      THEN LET idx == unwrap(parser_idx)
                               hit == Join(tier2, parser_accesses(idx, data))
                               r == parse_sequence(idx, data)
                           IN  IF ~r.ok \/ is_some(r.val) THEN hit
                               ELSE Join(hit, tier3_accesses(data, 0))
                      ELSE Join(tier2, tier3_accesses(data, 0))

\* detect_and_parse calls per behaviour when the buffers are arbitrary
MaxByteCalls == 2

\* a zeroed buffer of len bytes with the given EtherType, IHL nibble, IP
\* protocol and TCP data-offset nibble written where they fit
Buffer(len, ethertype, ihl, protocol, data_offset) ==
    LET at == 12 :> (ethertype \div 256) @@ 13 :> (ethertype % 256)
              @@ 14 :> (64 + ihl) @@ 23 :> protocol
              @@ (14 + 4 * ihl + 12) :> (16 * data_offset)
    IN  [i \in 1..len |-> IF (i - 1) \in DOMAIN at THEN at[i - 1] ELSE 0]

\* buffers around every length the code compares against: 14, 30, 34, 42 and,
\* for each IHL nibble, the end of the IP header plus 0, 4, 8 and 12; every
\* supported and one unsupported EtherType and IP protocol
ByteBuffers ==
    {Buffer(len, 35045, 0, 0, 0) : len \in {0, 13, 14, 29, 30, 45}}
    \cup {Buffer(14, 2054, 0, 0, 0), Buffer(33, 2048, 5, 6, 5), Buffer(34, 2048, 5, 50, 0)}
    \cup {Buffer(len, 2048, ihl, protocol, 0) :
              len \in {41, 42, 74, 78, 82}, ihl \in {0, 5, 15}, protocol \in {50, 17}}
    \cup {Buffer(len, 2048, ihl, 6, data_offset) :
              len \in {41, 42, 46, 47, 74, 78, 82, 86, 87},
              ihl \in {0, 5, 15}, data_offset \in {0, 15}}
    \cup {Buffer(42, 2048, 5, 1, 0)}

NextBytes ==
    \E data \in ByteBuffers : Len(reg_calls) < MaxByteCalls /\ DetectAndParse(data)

SpecBytes == Init /\ [][NextBytes]_vars

\* the pipeline of process_single_packet on the buffer of call c: the packet it
\* hands to the tracker, if any
Analyzed(c) ==
    IF c.result.ok /\ is_some(c.result.val)
    THEN Some(AnalyzedPacket(unwrap(c.result.val).sequence_number,
                             unwrap(c.result.val).flow_id, 0,
                             unwrap(c.result.val).payload_length))
    ELSE None

\* C22: no panic on external input.  For every input buffer detect_and_parse
\* returns Ok or Err having indexed no byte beyond the buffer, cut the buffer
\* nowhere beyond its end and indexed no parser that does not exist, and
\* process_packet returns for the packet made of what it returned.
C22_NoPanicOnExternalInput ==
    \A i \in DOMAIN reg_calls :
        LET c == reg_calls[i] IN
        c.op = "detect_and_parse" =>
            /\ InBounds(detect_and_parse_accesses(c.before, c.data), c.data)
            /\ c.result.ok \/ c.result.err \in {"PacketTooShort"}
            /\ is_some(Analyzed(c)) =>
                   LET packet == unwrap(Analyzed(c))
                       r == process_packet(EmptyMap, packet, 0)
                   IN  /\ DOMAIN r.flows = {packet.flow_id}
                       /\ r.flows[packet.flow_id].packets_received = 1

\* a cached TCP flow was hit by a buffer with the longest IP header, cut right
\* after the ports: the parser read up to the last byte and returned Err
C22_Witness ==
    \E i \in DOMAIN reg_calls :
        LET c == reg_calls[i] IN
        /\ c.op = "detect_and_parse"
        /\ Len(c.data) = 78
        /\ Ihl(c.data) = 60
        /\ c.after.cache_hits = c.before.cache_hits + 1
        /\ ~c.result.ok
        /\ 77 \in detect_and_parse_accesses(c.before, c.data).bytes
        /\ 74 \in detect_and_parse_accesses(c.before, c.data).cuts

\* call i carries a sequence number that an earlier call on its flow processed
\* in order: as the first packet of the flow or as the expected one
ProcessedInOrder(i) ==
    \E j \in 1..(i - 1) :
        /\ calls[j].packet.flow_id = calls[i].packet.flow_id
        /\ calls[j].packet.sequence_number = calls[i].packet.sequence_number
        /\ \/ is_none(calls[j].pre)
           \/ unwrap(calls[j].pre).expected_sequence
                  = Some(calls[j].packet.sequence_number)

\* call i carries a sequence number held in the reorder buffer of its flow
Buffered(i) ==
    /\ is_some(calls[i].pre)
    /\ calls[i].packet.sequence_number \in DOMAIN unwrap(calls[i].pre).reorder_buffer

\* C25: duplicates are dropped.  When a packet's sequence number is already in
\* the flow's reorder buffer or was already processed in order on that flow,
\* process_packet returns None and leaves expected_sequence, highest_sequence,
\* the reorder buffer and the gap list of the flow unchanged.
C25_DuplicatesDropped ==
    \A i \in DOMAIN calls :
        LET c == calls[i] IN
        (c.packet.flow_id.kind # "GenericL3" /\ (Buffered(i) \/ ProcessedInOrder(i)))
            => /\ c.ret = None
               /\ c.post.expected_sequence = unwrap(c.pre).expected_sequence
               /\ c.post.highest_sequence = unwrap(c.pre).highest_sequence
               /\ c.post.reorder_buffer = unwrap(c.pre).reorder_buffer
               /\ c.post.gaps = unwrap(c.pre).gaps

\* call i takes the branch current_seq > highest of process_packet
TakesForwardBranch(i) ==
    LET c == calls[i] IN
    /\ c.packet.flow_id.kind # "GenericL3"
    /\ is_some(c.pre)
    /\ is_some(unwrap(c.pre).first_sequence)
    /\ unwrap(c.pre).expected_sequence # Some(c.packet.sequence_number)
    /\ IsAhead(c.packet.sequence_number, unwrap(unwrap(c.pre).highest_sequence))

\* call i takes the branch current_seq < highest and inserts
InsertsLate(i) ==
    LET c == calls[i] IN
    /\ c.packet.flow_id.kind # "GenericL3"
    /\ is_some(c.pre)
    /\ is_some(unwrap(c.pre).first_sequence)
    /\ unwrap(c.pre).expected_sequence # Some(c.packet.sequence_number)
    /\ IsLate(c.packet.sequence_number, unwrap(unwrap(c.pre).highest_sequence))
    /\ c.post.reorder_buffer # unwrap(c.pre).reorder_buffer

\* C29: no duplicate reorder-buffer insertion.  A sequence number is inserted
\* into a flow's reorder buffer only when it is not already a key of that
\* buffer, on the late path and on the forward-jump path alike.
C29_NoDuplicateInsertion ==
    \A i \in DOMAIN calls :
        (TakesForwardBranch(i) \/ InsertsLate(i))
            => calls[i].packet.sequence_number
                   \notin DOMAIN unwrap(calls[i].pre).reorder_buffer

\* C30: sequence-field domain.  For every flow that is not GenericL3,
\* first_sequence, highest_sequence and expected_sequence are all Some, never
\* some of them Some and others None, and no call changes a first_sequence
\* that is set.
C30_SequenceFieldDomain ==
    /\ \A f \in DOMAIN flows :
           f.kind # "GenericL3"
               => /\ is_some(flows[f].first_sequence)
                  /\ is_some(flows[f].highest_sequence)
                  /\ is_some(flows[f].expected_sequence)
    /\ \A i \in DOMAIN calls :
           (calls[i].packet.flow_id.kind # "GenericL3" /\ is_some(calls[i].pre))
               => calls[i].post.first_sequence = unwrap(calls[i].pre).first_sequence

\* a flow that began at 1 took a forward jump, a late packet and a packet in
\* order: its three fields are set and first_sequence is still 1
C30_Witness ==
    /\ Len(calls) = 4
    /\ \A i \in DOMAIN calls : calls[i].packet.flow_id = FlowM
    /\ calls[1].packet.sequence_number = U32(1)
    /\ TakesForwardBranch(2)
    /\ InsertsLate(3)
    /\ unwrap(calls[4].pre).expected_sequence = Some(calls[4].packet.sequence_number)
    /\ flows[FlowM].first_sequence = Some(U32(1))
    /\ is_some(flows[FlowM].highest_sequence)
    /\ is_some(flows[FlowM].expected_sequence)

\* the gap sizes recorded on a flow
GapSizes(state) == {state.gaps[i].gap_size : i \in DOMAIN state.gaps}

\* C31: min_gap / max_gap.  For every flow, min_gap and max_gap are None
\* exactly while the flow has no recorded gap; otherwise they are the minimum
\* and the maximum gap_size over the flow's recorded gaps.
C31_MinMaxGap ==
    \A f \in DOMAIN flows :
        LET state == flows[f] IN
        IF state.gaps = <<>>
        THEN state.min_gap = None /\ state.max_gap = None
        ELSE /\ is_some(state.min_gap) /\ is_some(state.max_gap)
             /\ unwrap(state.min_gap) \in GapSizes(state)
             /\ unwrap(state.max_gap) \in GapSizes(state)
             /\ \A size \in GapSizes(state) :
                    /\ ~Lt(size, unwrap(state.min_gap))
                    /\ ~Gt(size, unwrap(state.max_gap))

\* a flow with two gaps, the second smaller than the first, next to a flow
\* that has none
C31_Witness ==
    /\ FlowM \in DOMAIN flows
    /\ Len(flows[FlowM].gaps) = 2
    /\ Lt(flows[FlowM].gaps[2].gap_size, flows[FlowM].gaps[1].gap_size)
    /\ flows[FlowM].min_gap = Some(flows[FlowM].gaps[2].gap_size)
    /\ flows[FlowM].max_gap = Some(flows[FlowM].gaps[1].gap_size)

\* the timestamps of the packets of flow f, in arrival order
StampsOn(f) == [i \in DOMAIN CallsOn(f) |-> CallsOn(f)[i].packet.timestamp]

\* the positions of StampsOn(f) that are not earlier than their predecessor
SampledAt(f) == {i \in 2..Len(StampsOn(f)) : StampsOn(f)[i] >= StampsOn(f)[i - 1]}

\* the inter-arrival sample taken at position i: the whole microseconds of the
\* time between the two packets, whose timestamps are in nanoseconds
SampleAt(f, i) == (StampsOn(f)[i] - StampsOn(f)[i - 1]) \div 1000

RECURSIVE SumSamples(_, _)
SumSamples(f, at) ==
    IF at = {} THEN 0
    ELSE LET i == CHOOSE j \in at : TRUE
         IN  SampleAt(f, i) + SumSamples(f, at \ {i})

\* C32: timestamps and inter-arrival.  For each flow first_timestamp is the
\* timestamp of its first packet, last_timestamp that of its most recent packet
\* even when it is earlier than the one before, and a sample now - last_timestamp
\* is taken exactly for the packets not stamped earlier than their predecessor:
\* the number of samples is at most packets_received - 1, a flow without a
\* sample (a single-packet flow among them) reports None for min, max and avg,
\* and a flow with samples reports their minimum, their maximum and
\* floor(sum / count), with min <= avg <= max.
C32_TimestampsAndInterArrival ==
    \A f \in DOMAIN flows :
        LET state == flows[f]
            stamps == StampsOn(f)
            at == SampledAt(f)
            stats == FlowStatsOf(f, state)
        IN  /\ stats.first_timestamp = Some(stamps[1])
            /\ stats.last_timestamp = Some(stamps[Len(stamps)])
            /\ state.inter_arrival_count = Cardinality(at)
            /\ state.inter_arrival_count <= stats.packets_received - 1
            /\ IF at = {}
               THEN /\ stats.min_inter_arrival = None
                    /\ stats.max_inter_arrival = None
                    /\ stats.avg_inter_arrival = None
               ELSE /\ \E i \in at : stats.min_inter_arrival = Some(SampleAt(f, i))
                    /\ \E i \in at : stats.max_inter_arrival = Some(SampleAt(f, i))
                    /\ \A i \in at :
                          /\ unwrap(stats.min_inter_arrival) <= SampleAt(f, i)
                          /\ SampleAt(f, i) <= unwrap(stats.max_inter_arrival)
                    /\ stats.avg_inter_arrival
                          = Some(SumSamples(f, at) \div Cardinality(at))
                    /\ unwrap(stats.min_inter_arrival) <= unwrap(stats.avg_inter_arrival)
                    /\ unwrap(stats.avg_inter_arrival) <= unwrap(stats.max_inter_arrival)

\* a flow of three packets that took one sample, its last packet stamped earlier
\* than its first, next to a flow of a single packet
C32_Witness ==
    /\ FlowM \in DOMAIN flows
    /\ Len(StampsOn(FlowM)) = 3
    /\ Cardinality(SampledAt(FlowM)) = 1
    /\ flows[FlowM].last_timestamp # None
    /\ unwrap(flows[FlowM].last_timestamp) < unwrap(flows[FlowM].first_timestamp)
    /\ FlowI \in DOMAIN flows
    /\ flows[FlowI].packets_received = 1
    /\ FlowStatsOf(FlowI, flows[FlowI]).avg_inter_arrival = None


\* C33: clear_cache.  After clear_cache the flow cache is empty (cache_size = 0)
\* and the four counters are unchanged; the next packet of a flow that was
\* cached before the call is a Tier 3 miss again (cache_misses +1, cache_hits
\* unchanged) that puts the flow back in the cache.
C33_ClearCache ==
    \A i \in DOMAIN reg_calls :
        reg_calls[i].op = "clear_cache" =>
            LET c == reg_calls[i] IN
            /\ c.after.flow_cache = EmptyMap
            /\ RegistryStats(c.after).cache_size = 0
            /\ RegistryStats(c.after).cache_hits = RegistryStats(c.before).cache_hits
            /\ RegistryStats(c.after).cache_misses = RegistryStats(c.before).cache_misses
            /\ RegistryStats(c.after).ethertype_fast_path
                   = RegistryStats(c.before).ethertype_fast_path
            /\ RegistryStats(c.after).unknown_protocol
                   = RegistryStats(c.before).unknown_protocol
            /\ (/\ i + 1 \in DOMAIN reg_calls
                /\ reg_calls[i + 1].op = "detect_and_parse"
                /\ is_some(FlowOfFrame(reg_calls[i + 1].data))
                /\ unwrap(FlowOfFrame(reg_calls[i + 1].data)) \in DOMAIN c.before.flow_cache)
               => LET n == reg_calls[i + 1] IN
                  /\ n.result.ok /\ is_some(n.result.val)
                  /\ n.after.cache_misses = n.before.cache_misses + 1
                  /\ n.after.cache_hits = n.before.cache_hits
                  /\ unwrap(FlowOfFrame(n.data)) \in DOMAIN n.after.flow_cache

\* a flow is cached through Tier 3, the cache is cleared, and the next packet
\* of that flow arrives
C33_Witness ==
    /\ Len(reg_calls) = 3
    /\ ViaTier3(reg_calls[1])
    /\ reg_calls[2].op = "clear_cache"
    /\ reg_calls[2].before.flow_cache # EmptyMap
    /\ reg_calls[3].op = "detect_and_parse"
    /\ FlowOfFrame(reg_calls[3].data) = Some(unwrap(reg_calls[1].result.val).flow_id)
    /\ cache_misses = 2
    /\ cache_hits = 0

\* the times at which a call made after the cancelled one c is tried
LaterTimes(c) == {c.now + 1, c.now + c.wait, c.now + c.wait + Millis(1)}

\* the packet the cancelled call c was sleeping on
SleptOn(c) == c.after.packets[c.after.current_index + 1]

\* a next_packet call made on the source c left behind returns the packet that
\* c was sleeping on, which is the one the call would have returned had it run
\* to completion, and counts it once
SamePacketLater(c) ==
    /\ ReturnsPacket(next_packet(c.before, c.now), SleptOn(c).data)
    /\ \A t \in LaterTimes(c) :
          LET later == next_packet(c.after, t) IN
          /\ ReturnsPacket(later, SleptOn(c).data)
          /\ later.this.packets_replayed = c.before.packets_replayed + 1
          /\ later.this.loops_completed = c.before.loops_completed

\* C34: cancellation-safe replay, as stated.  If a next_packet call is
\* cancelled while it sleeps for timing, current_index, packets_replayed and
\* loops_completed are unchanged; no packet is skipped or counted twice, and a
\* later next_packet call returns the same packet.
C34_CancellationSafeReplay ==
    \A i \in DOMAIN cancelled :
        LET c == cancelled[i] IN
        /\ c.after.current_index = c.before.current_index
        /\ c.after.packets_replayed = c.before.packets_replayed
        /\ c.after.loops_completed = c.before.loops_completed
        /\ SamePacketLater(c)

\* C34, amended: a next_packet call cancelled while it sleeps leaves
\* packets_replayed and loops_completed unchanged, and leaves current_index
\* unchanged unless a loop reset was pending, in which case the reset has been
\* applied (current_index went from N to 0 and pending_loop_reset is cleared);
\* in both cases no packet is skipped or counted twice and a later next_packet
\* call returns the same packet.
C34_Amended ==
    \A i \in DOMAIN cancelled :
        LET c == cancelled[i] IN
        /\ c.after.packets_replayed = c.before.packets_replayed
        /\ c.after.loops_completed = c.before.loops_completed
        /\ IF c.before.pending_loop_reset
           THEN /\ c.before.current_index = Len(c.before.packets)
                /\ c.after.current_index = 0
                /\ ~c.after.pending_loop_reset
           ELSE c.after.current_index = c.before.current_index
        /\ SamePacketLater(c)

\* two calls were cancelled in their sleep: one in the middle of a pass, one
\* that had a loop reset to apply
C34_Witness ==
    /\ Len(cancelled) = 2
    /\ ~cancelled[1].before.pending_loop_reset
    /\ cancelled[1].wait > 0
    /\ cancelled[2].before.pending_loop_reset
    /\ cancelled[2].before.packets_replayed > 0

\* the packets_received stored for each flow does not go down on this step
StoredCountsKept ==
    \A k \in DOMAIN db.flows :
        /\ k \in DOMAIN db'.flows
        /\ db'.flows[k].packets_received >= db.flows[k].packets_received

\* the store holds, for every flow of the tracker, the row of the final snapshot
HoldsFinalSnapshot ==
    \A f \in DOMAIN flows :
        /\ to_string(f) \in DOMAIN db.flows
        /\ db.flows[to_string(f)].packets_received = flows[f].packets_received
        /\ db.flows[to_string(f)].last_sequence = flows[f].last_sequence

\* C35: persistence ordering under concurrency.  Snapshots reach the store in
\* the order they were taken: a periodic worker task never overwrites the store
\* with an older snapshot after a newer periodic snapshot or the final snapshot
\* was written, so the packets_received stored for a flow never decreases, and
\* once run_analyzer has returned Ok and all workers have finished the store
\* holds the final snapshot.
C35_PersistenceOrdering ==
    /\ [][StoredCountsKept]_vars
    /\ []((/\ pc = "returned"
           /\ unwrap(run_result).ok
           /\ workers = <<>>) => HoldsFinalSnapshot)

\* call i reaches the branch current_seq < highest of process_packet
TakesLateBranch(i) ==
    /\ is_some(calls[i].pre)
    /\ calls[i].packet.flow_id.kind # "GenericL3"
    /\ Some(calls[i].packet.sequence_number) # unwrap(calls[i].pre).expected_sequence
    /\ IsLate(calls[i].packet.sequence_number,
              unwrap(unwrap(calls[i].pre).highest_sequence))

\* C36: in every reachable state of a flow that is not GenericL3,
\* expected_sequence = highest_sequence + 1 (mod 2^32); consequently a packet
\* that takes the late branch never equals expected, and the branch leaves
\* expected_sequence as it was.
C36_ExpectedFollowsHighest ==
    /\ \A f \in DOMAIN flows :
          f.kind # "GenericL3" =>
              /\ is_some(flows[f].highest_sequence)
              /\ flows[f].expected_sequence
                     = Some(wrapping_add(unwrap(flows[f].highest_sequence), U32(1)))
    /\ \A i \in DOMAIN calls :
          TakesLateBranch(i) =>
              /\ calls[i].post.expected_sequence = unwrap(calls[i].pre).expected_sequence
              /\ calls[i].post.highest_sequence = unwrap(calls[i].pre).highest_sequence

\* a flow went over the wrap in order (u32::MAX, then 0), jumped forward, and
\* then took a late packet into its buffer
C36_Witness ==
    /\ Len(calls) = 4
    /\ \A i \in 1..4 : calls[i].packet.flow_id = FlowM
    /\ calls[1].packet.sequence_number = U32_MAX
    /\ calls[2].packet.sequence_number = U32(0)
    /\ calls[2].post.expected_sequence = Some(U32(1))
    /\ is_some(calls[3].ret)
    /\ TakesLateBranch(4)
    /\ calls[4].packet.sequence_number \in DOMAIN calls[4].post.reorder_buffer
    /\ calls[4].packet.sequence_number \notin DOMAIN unwrap(calls[4].pre).reorder_buffer

\* the gap list of the flow before call c
GapsBefore(c) == IF is_some(c.pre) THEN unwrap(c.pre).gaps ELSE <<>>

\* C37: the shape of every emitted gap.  A gap returned by process_packet has
\* received = the packet's sequence number, expected = the flow's
\* expected_sequence before the call and gap_size = (received - expected) mod
\* 2^32, at least 1; after the call expected_sequence = received + 1 (mod 2^32)
\* and highest_sequence = received.  process_packet returns Some exactly when
\* it appended that one gap to the flow's gap list, and the gaps recorded
\* before are kept as they were.
C37_GapShape ==
    \A i \in DOMAIN calls :
        LET c == calls[i] IN
        IF is_some(c.ret)
        THEN LET gap == unwrap(c.ret) IN
             /\ is_some(c.pre)
             /\ gap.flow_id = c.packet.flow_id
             /\ gap.received = c.packet.sequence_number
             /\ Some(gap.expected) = unwrap(c.pre).expected_sequence
             /\ gap.gap_size = wrapping_sub(gap.received, gap.expected)
             /\ gap.gap_size # U32(0)
             /\ c.post.expected_sequence = Some(wrapping_add(gap.received, U32(1)))
             /\ c.post.highest_sequence = Some(gap.received)
             /\ c.post.gaps = Append(GapsBefore(c), gap)
        ELSE c.post.gaps = GapsBefore(c)

\* a flow's second gap, wider than one sequence number, emitted after a packet
\* that returned None
C37_Witness ==
    /\ Len(calls) = 4
    /\ \A i \in 1..4 : calls[i].packet.flow_id = FlowM
    /\ is_some(calls[2].ret)
    /\ is_none(calls[3].ret)
    /\ is_some(calls[4].ret)
    /\ Len(calls[4].post.gaps) = 2
    /\ Gt(unwrap(calls[4].ret).gap_size, U32(1))

\* the detect_and_parse calls made on a buffer that holds an Ethernet header
HeaderCalls ==
    {i \in DOMAIN reg_calls :
        reg_calls[i].op = "detect_and_parse" /\ Len(reg_calls[i].data) >= 14}

\* what call c added to each counter
Added(c) ==
    [cache_hits |-> c.after.cache_hits - c.before.cache_hits,
     cache_misses |-> c.after.cache_misses - c.before.cache_misses,
     ethertype_fast_path |-> c.after.ethertype_fast_path - c.before.ethertype_fast_path,
     unknown_protocol |-> c.after.unknown_protocol - c.before.unknown_protocol]

Route(hits, misses, fast, unknown) ==
    [cache_hits |-> hits, cache_misses |-> misses,
     ethertype_fast_path |-> fast, unknown_protocol |-> unknown]

\* the route call c took, read off the counters; "none" when they fit no route
RouteOf(c) ==
    CASE Added(c) = Route(0, 0, 1, 0) /\ EtherType(c.data) = 35045 -> "fast path"
      [] Added(c) = Route(0, 0, 0, 1) /\ EtherType(c.data) \notin {35045, 2048}
            -> "unsupported EtherType"
      [] Added(c) = Route(1, 0, 0, 0) /\ EtherType(c.data) = 2048 -> "cache hit"
      [] Added(c) = Route(0, 1, 0, IF c.result = Ok(None) THEN 1 ELSE 0)
            /\ EtherType(c.data) = 2048 -> "full detection"
      [] OTHER -> "none"

\* C38: the counter partition.  Each detect_and_parse call on a buffer of at
\* least 14 bytes takes exactly one of four routes: fast path
\* (ethertype_fast_path +1), unsupported EtherType (unknown_protocol +1), cache
\* hit (cache_hits +1), full detection (cache_misses +1, and unknown_protocol +1
\* exactly when no parser matched); so cache_hits and cache_misses never both
\* increase on one call, the route counts sum to the number of such calls, and
\* no counter ever decreases.
C38_CounterPartition ==
    /\ \A i \in HeaderCalls :
          /\ RouteOf(reg_calls[i]) # "none"
          /\ ~(Added(reg_calls[i]).cache_hits > 0 /\ Added(reg_calls[i]).cache_misses > 0)
    /\ cache_hits + cache_misses + ethertype_fast_path
           + Cardinality({i \in HeaderCalls :
                             RouteOf(reg_calls[i]) = "unsupported EtherType"})
       = Cardinality(HeaderCalls)
    /\ \A i \in DOMAIN reg_calls :
          /\ Added(reg_calls[i]).cache_hits >= 0
          /\ Added(reg_calls[i]).cache_misses >= 0
          /\ Added(reg_calls[i]).ethertype_fast_path >= 0
          /\ Added(reg_calls[i]).unknown_protocol >= 0

\* a full detection that matched, a cache hit, and a full detection in which
\* no parser matched
C38_Witness ==
    /\ Len(reg_calls) = 3
    /\ HeaderCalls = {1, 2, 3}
    /\ RouteOf(reg_calls[1]) = "full detection"
    /\ Added(reg_calls[1]).unknown_protocol = 0
    /\ RouteOf(reg_calls[2]) = "cache hit"
    /\ RouteOf(reg_calls[3]) = "full detection"
    /\ Added(reg_calls[3]).unknown_protocol = 1

\* the index, in the parsers vector, of the parser with the given name
ParserIndex(name) == (CHOOSE k \in DOMAIN parsers : parsers[k].name = name) - 1

\* the parser that produces FlowIds of the variant of flow_id
ParserOf(flow_id) ==
    CASE flow_id.kind = "MACsec" -> ParserIndex("MACsec")
      [] flow_id.kind = "IPsec" -> ParserIndex("IPsec-ESP")
      [] flow_id.kind = "GenericL3" -> ParserIndex("Generic-L3")

\* C39: the cache invariant.  Every entry of the flow cache was inserted by
\* Tier 3 after a parser returned Ok(Some); its key is an IPsec or a GenericL3
\* FlowId, mapped to the index of the parser that produces that variant;
\* MACsec flows are never cached; and the provisional FlowId of a packet equals
\* the FlowId that the cached parser, or the parser Tier 3 found, reports for
\* that packet whenever it returns Ok(Some).
C39_CacheInvariant ==
    /\ \A flow_id \in DOMAIN flow_cache :
          /\ flow_id.kind \in {"IPsec", "GenericL3"}
          /\ flow_cache[flow_id] = ParserOf(flow_id)
          /\ \E i \in DOMAIN reg_calls :
                /\ ViaTier3(reg_calls[i])
                /\ unwrap(reg_calls[i].result.val).flow_id = flow_id
                /\ TryParsers(reg_calls[i].data, 0).idx = flow_cache[flow_id]
    /\ \A i \in DOMAIN reg_calls :
          LET c == reg_calls[i] IN
          /\ (is_some(CachedParser(c)) /\ unwrap(CachedParser(c)).ok
                  /\ is_some(unwrap(CachedParser(c)).val))
             => extract_provisional_flow_id(c.data)
                    = Some(unwrap(unwrap(CachedParser(c)).val).flow_id)
          /\ ViaTier3(c)
             => extract_provisional_flow_id(c.data) = Some(unwrap(c.result.val).flow_id)
          /\ (c.op = "detect_and_parse" /\ c.result.ok /\ is_some(c.result.val)
                  /\ unwrap(c.result.val).flow_id.kind = "MACsec")
             => c.after.flow_cache = c.before.flow_cache

\* the cache holds an IPsec flow and a TCP flow, each put there by Tier 3, and
\* the third call found its flow in the cache and the cached parser returned
\* Ok(Some)
C39_Witness ==
    /\ Len(reg_calls) = 3
    /\ \E a, b \in DOMAIN flow_cache : a.kind = "IPsec" /\ b.kind = "GenericL3"
    /\ is_some(CachedParser(reg_calls[3]))
    /\ unwrap(CachedParser(reg_calls[3])).ok
    /\ is_some(unwrap(CachedParser(reg_calls[3])).val)
    /\ cache_hits = 1

\* C40: replay accounting.  In every reachable state of a ReplayCapture with N
\* loaded packets, current_index <= N, and packets_replayed =
\* loops_completed * N + current_index when no loop reset is pending and
\* = loops_completed * N when one is pending; stats() reports packets_received
\* = packets_replayed and packets_dropped = 0.
C40_ReplayAccounting ==
    is_some(capture) =>
        LET this == unwrap(capture)
            N == Len(this.packets)
        IN  /\ this.current_index <= N
            /\ this.packets_replayed
                   = IF this.pending_loop_reset
                     THEN this.loops_completed * N
                     ELSE this.loops_completed * N + this.current_index
            /\ ReplayCapture_stats(this).packets_received = this.packets_replayed
            /\ ReplayCapture_stats(this).packets_dropped = 0

\* a source of two packets in its second pass: one loop completed, the reset
\* applied, three packets replayed
C40_Witness ==
    /\ is_some(capture)
    /\ Len(unwrap(capture).packets) = 2
    /\ unwrap(capture).loops_completed = 1
    /\ ~unwrap(capture).pending_loop_reset
    /\ unwrap(capture).current_index = 1
    /\ ReplayCapture_stats(unwrap(capture)).packets_received = 3
    /\ \E i \in DOMAIN replay_calls : replay_calls[i].after.pending_loop_reset

----------------------------------------------------------------------------
(* run_analyzer over a ReplayCapture with looping enabled *)

\* iterations of the loop per behaviour when it replays a file
MaxLoopingEvents == 6

\* a MACsec frame of the test channel carrying packet number pn
MacsecFrame(pn) ==
    With(With(With(With(create_macsec_packet, 16, pn[1]), 17, pn[2]), 18, pn[3]), 19, pn[4])

\* the packet numbers of the records of the files replayed
Recordings ==
    { <<U32(1)>>,
      <<U32(1), U32(2)>>,
      <<U32(1), U32(3)>>,
      <<U32(2), U32(1)>>,
      <<U32(0), U32(2), U32(1)>>,
      <<U32_MAX, U32(0)>>,
      <<U32_MAX, U32(1)>> }

\* ReplayCapture::open(path, ReplayMode::Fast, true) on a file whose records
\* hold the MACsec frames with the given packet numbers, one millisecond apart
ReplayOpen(numbers) ==
    /\ pc = "loop"
    /\ capture = None
    /\ loop_log = <<>>
    /\ \E r \in {open(PcapFile([i \in DOMAIN numbers |-> <<Millis(i - 1)>>]), Fast, TRUE)} :
           capture' = Some([r.result.val EXCEPT !.packets =
                               [i \in DOMAIN @ |->
                                   RawPacket(MacsecFrame(numbers[i]), @[i].timestamp)]])
    /\ UNCHANGED <<open_calls, replay_calls, clock, cancelled>>
    /\ UNCHANGED <<concurrent_vars, tracker_vars, registry_vars, flowid_vars, loop_vars>>

\* the time the loop takes from one next_packet call to the next, in nanoseconds
Elapsed == {133140, 259590}

\* an iteration of the loop on which the replay source returned Ok(Some(packet))
ReplayedPacket(timer_due) ==
    /\ pc = "loop"
    /\ is_some(capture)
    /\ Len(loop_log) < MaxLoopingEvents
    /\ \E n \in {next_packet(unwrap(capture), clock)} :
        /\ n.result.ok /\ is_some(n.result.val)
        /\ capture' = Some(n.this)
        /\ \E elapsed \in Elapsed : clock' = clock + n.slept + elapsed
        /\ \E r \in {process_single_packet(Registry, flows, unwrap(n.result.val).data,
                                           unwrap(n.result.val).timestamp, now) :
                      now \in SystemTimeNow} :
           /\ flow_cache' = r.reg.flow_cache
           /\ cache_hits' = r.reg.cache_hits
           /\ cache_misses' = r.reg.cache_misses
           /\ ethertype_fast_path' = r.reg.ethertype_fast_path
           /\ unknown_protocol' = r.reg.unknown_protocol
           /\ flows' = r.flows
           /\ IF ~r.ok
              THEN /\ pc' = "returned"
                   /\ run_result' = Some([ok |-> FALSE, err |-> r.err])
                   /\ loop_log' = Append(loop_log,
                                         LoopEntry("packet", Some(r.detect), "returned"))
                   /\ UNCHANGED <<gap_count, workers>>
              ELSE /\ gap_count' = IF unwrap(r.metrics).detected
                                      /\ unwrap(r.metrics).gap_detected
                                   THEN gap_count + 1 ELSE gap_count
                   /\ IF timer_due \/ (packet_count + 1) % persist_packet_threshold = 0
                      THEN \E order \in IterationOrders(r.flows) :
                               workers' = Append(workers, Snapshot(r.flows, order))
                      ELSE UNCHANGED workers
                   /\ loop_log' = Append(loop_log,
                                         LoopEntry("packet", Some(r.detect), "loop"))
                   /\ UNCHANGED <<pc, run_result>>
    /\ packet_count' = packet_count + 1
    /\ UNCHANGED <<concurrent_vars, reorder_window_size, calls, reg_calls, flowid_vars,
                   open_calls, replay_calls, cancelled, signal_vars, boundaries,
                   persist_calls,
                   warnings, db, final_persists, reports>>

\* an iteration on which the replay source returned Ok(None), the loop
\* boundary: the loop continues with the tracker as it is
ReplayedBoundary ==
    /\ pc = "loop"
    /\ is_some(capture)
    /\ Len(loop_log) < MaxLoopingEvents
    /\ \E n \in {next_packet(unwrap(capture), clock)} :
        /\ n.result.ok /\ is_none(n.result.val)
        /\ capture' = Some(n.this)
        /\ \E elapsed \in Elapsed : clock' = clock + n.slept + elapsed
    /\ loop_log' = Append(loop_log, LoopEntry("Ok(None)", None, "loop"))
    /\ boundaries' = Append(boundaries, [f \in DOMAIN flows |-> Len(flows[f].gaps)])
    /\ UNCHANGED <<concurrent_vars, tracker_vars, registry_vars, flowid_vars, open_calls,
                   replay_calls, cancelled, signal_vars, persist_calls, warnings, pc, packet_count,
                   gap_count, run_result, db, workers, final_persists, reports>>

NextLooping ==
    \/ \E numbers \in Recordings : ReplayOpen(numbers)
    \/ \E timer_due \in BOOLEAN : ReplayedPacket(timer_due)
    \/ ReplayedBoundary
    \/ \E i \in 1..MaxLoopingEvents, succeeds \in BOOLEAN : WorkerRun(i, succeeds)

SpecLooping == Init /\ [][NextLooping]_vars

\* C26: looping adds no artificial gaps.  With looping enabled, passes after
\* the first over the same capture emit no gap: at every loop boundary, and at
\* every point of a later pass, each flow's gaps_detected is what it was at the
\* end of the first pass, whatever the capture holds.
C26_LoopingAddsNoGaps ==
    /\ \A k \in DOMAIN boundaries : boundaries[k] = boundaries[1]
    /\ boundaries # <<>> =>
           \A f \in DOMAIN flows :
               /\ f \in DOMAIN boundaries[1]
               /\ Len(flows[f].gaps) = boundaries[1][f]

----------------------------------------------------------------------------
(* The concurrent FlowTracker: threads calling process_packet and get_stats   *)
(* on the same DashMap.  A guard on an entry is held from its acquisition to  *)
(* the end of the scope that took it.                                         *)

\* process_packet calls begun per behaviour
MaxConcurrentCalls == 3
\* entries visited by get_stats per behaviour
MaxReads == 2

\* the threads that call process_packet
Writers == {1, 2}

ConcurrentInputs ==
    { AnalyzedPacket(U32(1), FlowM, 1000, 100),
      AnalyzedPacket(U32(3), FlowM, 3000, 100),
      AnalyzedPacket(U32(1), FlowI, 1000, 200) }

\* a variant of the map whose entries are handed out without a guard
Vacant_Unguarded(g, flow_id) == TRUE

\* the entry of flow_id can be locked: no guard on it is alive
Vacant(g, flow_id) == flow_id \notin DOMAIN g

CallsBegun == Cardinality({w \in Writers : is_some(tasks[w])})
                  + Len(commits[FlowM]) + Len(commits[FlowI])

\* self.flows.entry(flow_id).or_insert_with(FlowState::new), then the update
\* of the counters and timestamps; the guard stays alive
PacketEnter(w, packet) ==
    /\ is_none(tasks[w])
    /\ CallsBegun < MaxConcurrentCalls
    /\ Vacant(guards, packet.flow_id)
    /\ guards' = MapInsert(guards, packet.flow_id, w)
    /\ tasks' = [tasks EXCEPT ![w] = Some(packet)]
    /\ flows' = MapInsert(flows, packet.flow_id,
                          UpdateStatistics(IF packet.flow_id \in DOMAIN flows
                                           THEN flows[packet.flow_id] ELSE FlowStateNew,
                                           packet))
    /\ UNCHANGED <<reader, snapshots, commits>>
    /\ UNCHANGED <<reorder_window_size, calls, registry_vars, flowid_vars, replay_vars,
                   loop_vars>>

\* the sequence logic of the call, then the return: the guard is dropped
PacketReturn(w) ==
    /\ is_some(tasks[w])
    /\ \E packet \in {unwrap(tasks[w])} :
        \E state \in {IF packet.flow_id.kind = "GenericL3"
                      THEN flows[packet.flow_id]
                      ELSE TrackSequence(flows[packet.flow_id], packet, now).state :
                      now \in SystemTimeNow} :
           /\ flows' = MapInsert(flows, packet.flow_id, state)
           /\ commits' = [commits EXCEPT ![packet.flow_id] =
                               Append(@, FlowStatsOf(packet.flow_id, state))]
           /\ guards' = MapRemove(guards, packet.flow_id)
    /\ tasks' = [tasks EXCEPT ![w] = None]
    /\ UNCHANGED <<reader, snapshots>>
    /\ UNCHANGED <<reorder_window_size, calls, registry_vars, flowid_vars, replay_vars,
                   loop_vars>>

\* get_stats reaches an entry: it takes the read guard and copies the counters
StatsEnter(flow_id) ==
    /\ is_none(reader)
    /\ Len(snapshots) < MaxReads
    /\ flow_id \in DOMAIN flows
    /\ Vacant(guards, flow_id)
    /\ guards' = MapInsert(guards, flow_id, 0)
    /\ reader' = Some([flow_id |-> flow_id,
                       packets_received |-> flows[flow_id].packets_received,
                       total_bytes |-> flows[flow_id].total_bytes])
    /\ UNCHANGED <<tasks, snapshots, commits>>
    /\ UNCHANGED <<tracker_vars, registry_vars, flowid_vars, replay_vars, loop_vars>>

\* get_stats sums the gaps of the entry, builds its FlowStats and moves on:
\* the read guard is dropped
StatsReturn ==
    /\ is_some(reader)
    /\ \E r \in {unwrap(reader)} :
           /\ snapshots' = Append(snapshots,
                    [FlowStatsOf(r.flow_id, flows[r.flow_id])
                        EXCEPT !.packets_received = r.packets_received,
                               !.total_bytes = r.total_bytes])
           /\ guards' = MapRemove(guards, r.flow_id)
    /\ reader' = None
    /\ UNCHANGED <<tasks, commits>>
    /\ UNCHANGED <<tracker_vars, registry_vars, flowid_vars, replay_vars, loop_vars>>

NextConcurrent ==
    \/ \E w \in Writers, packet \in ConcurrentInputs : PacketEnter(w, packet)
    \/ \E w \in Writers : PacketReturn(w)
    \/ \E flow_id \in {FlowM, FlowI} : StatsEnter(flow_id)
    \/ StatsReturn

SpecConcurrent == Init /\ [][NextConcurrent]_vars

\* C24: atomic per-flow update under concurrency.  Every FlowStats that
\* get_stats returned is the FlowStats of its flow as some completed
\* process_packet call left it, so its packets_received, total_bytes,
\* gaps_detected, total_lost_packets and min_gap/max_gap correspond to the same
\* number of processed packets; and no update is lost: while no call is inside
\* a flow its packets_received equals the number of completed calls on it.
C24_AtomicPerFlowUpdate ==
    /\ \A i \in DOMAIN snapshots :
           \E k \in DOMAIN commits[snapshots[i].flow_id] :
               /\ snapshots[i] = commits[snapshots[i].flow_id][k]
               /\ snapshots[i].packets_received = k
    /\ \A flow_id \in DOMAIN flows :
           (\A w \in Writers : tasks[w] = None \/ unwrap(tasks[w]).flow_id # flow_id)
               => flows[flow_id].packets_received = Len(commits[flow_id])

\* get_stats saw the flow after its first packet and again after the second,
\* which opened a gap, while a thread is inside process_packet on another flow
C24_Witness ==
    /\ Len(snapshots) = 2
    /\ snapshots[1].flow_id = FlowM /\ snapshots[1].packets_received = 1
    /\ snapshots[1].gaps_detected = 0
    /\ snapshots[2].flow_id = FlowM /\ snapshots[2].packets_received = 2
    /\ snapshots[2].gaps_detected = 1
    /\ \E w \in Writers : is_some(tasks[w]) /\ unwrap(tasks[w]).flow_id = FlowI

====
